---- MODULE Spec2Model ----
(***************************************************************************)
(* Model of the question-generation pipeline of the A2A repository.        *)
(*                                                                         *)
(* PipelineController.generate_question (src/agents/pipeline_controller.py)*)
(* is one coroutine: it awaits one helper call at a time.  Each action of  *)
(* this module is the code that runs between two awaits: the return of the *)
(* helper that was awaited, the controller code after it, and the start of *)
(* the next helper call.  The peers are the environment: a reply is any    *)
(* outcome of the HTTP exchange, with a result text in either of the two   *)
(* encodings a peer may write.                                             *)
(***************************************************************************)
EXTENDS Integers, Sequences, FiniteSets, TLC

\* Largest value of PipelineConfig.max_revisions explored.
MaxRevisionsBound == 2

\* Python's None.
None == [tag |-> "None"]

\* dict.get(key, default)
Get(d, key, default) == IF key \in DOMAIN d THEN d[key] ELSE default

Last(s) == s[Len(s)]

\* A Python str standing where the code expects a dict: it has no .get, so
\* calling .get on it raises AttributeError.
PyStrValue(s) == [str |-> s]

HasGet(v) == "str" \notin DOMAIN v

(***************************************************************************)
(* Transport: a2a_local/client.py                                          *)
(***************************************************************************)

\* The keys of the AGENT_ENDPOINTS dict.
AGENT_ENDPOINTS ==
    { "orchestrator", "image", "database", "math", "reading", "verifier",
      "concept_guide", "question_generator", "quality_checker" }

\* What can happen to one HTTP POST: the three kinds that raise inside
\* send_task (connection failure, timeout, raise_for_status), a JSON-RPC reply
\* with an error member ("rpc_error"), or a JSON-RPC reply with a result
\* ("result").
RaisingKinds == { "network", "timeout", "http_status" }

\* The text of parts[0] of a result, as written by the peer: json.dumps of the
\* payload, or str of the payload, which is what BaseAgentExecutor.execute
\* writes: the Python repr of the dict, with single-quoted keys and True,
\* False, None.
JsonDumps(payload) == [format |-> "json", value |-> payload]
PyStr(payload) == [format |-> "repr", value |-> payload]

\* json.loads inside _parse_response: the repr of a dict that has a string
\* key is not JSON, and JSONDecodeError becomes None.
JsonLoads(text) == IF text.format = "json" THEN text.value ELSE None

\* The replies that carry no result.
FailedReplies ==
    { [kind |-> k, text |-> None] : k \in RaisingKinds \cup { "rpc_error" } }

\* Everything a peer whose handler returns one of payloads can answer.
Replies(payloads) ==
    FailedReplies
        \cup { [kind |-> "result", text |-> JsonDumps(p)] : p \in payloads }
        \cup { [kind |-> "result", text |-> PyStr(p)] : p \in payloads }

\* send_task returning result.get("result", {}) without looking for the error
\* member of the JSON-RPC reply.
send_task_ErrorMemberIgnored(reply) ==
    IF reply.kind \in RaisingKinds
    THEN [error |-> reply.kind]
    ELSE IF reply.kind = "rpc_error"
    THEN << >>
    ELSE [status |-> [message |-> [parts |-> << [text |-> reply.text] >>]]]

\* A2AClient.send_task: the dict handed back to the caller.
send_task(reply) ==
    IF reply.kind \in RaisingKinds
    THEN [error |-> reply.kind]
    ELSE IF reply.kind = "rpc_error"
    THEN [error |-> "rpc_error"]
    ELSE [status |-> [message |-> [parts |-> << [text |-> reply.text] >>]]]

\* PipelineController._parse_response on a dict from send_task.
_parse_response(response) ==
    IF response = None THEN None
    ELSE IF "error" \in DOMAIN response THEN None
    ELSE IF "status" \in DOMAIN response
    THEN LET parts == response.status.message.parts
         IN IF Len(parts) > 0 THEN JsonLoads(parts[1].text) ELSE None
    ELSE None

(***************************************************************************)
(* Payloads the services put on the wire                                   *)
(***************************************************************************)

Failure(msg) == [success |-> FALSE, error |-> msg]

\* ConceptGuideAgent.select_concept, and a peer that puts the id of the
\* concept where the concept object belongs.
SelectPayloads ==
    { Failure("No eligible concepts available"),
      [success |-> TRUE, selection |-> [concept |-> [id |-> "c1", name |-> "Analogy"]]],
      [success |-> TRUE, selection |-> [concept |-> PyStrValue("c1")]] }

\* QuestionGeneratorAgent.generate_question / revise_question.  n tells the
\* questions of one pipeline apart: the n-th helper call produced it.
GeneratorPayloads(n) ==
    { Failure("Failed to generate question"),
      [success |-> TRUE, blueprint |-> [id |-> n], question |-> [id |-> n]] }

JudgeFeedback ==
    { [issues |-> << >>, suggestions |-> << >>],
      [issues |-> << "ambiguous stem" >>, suggestions |-> << "reword stem" >>] }

\* QualityCheckerAgent.check_quality: accepted is status == ACCEPTED.
QualityPayloads ==
    { Failure("Failed to check quality") }
        \cup { [success |-> TRUE, status |-> "accepted", accepted |-> TRUE,
                issues |-> << >>, suggestions |-> << >>] }
        \cup { [success |-> TRUE, status |-> s, accepted |-> FALSE,
                issues |-> f.issues, suggestions |-> f.suggestions] :
                  s \in { "needs_revision", "rejected" }, f \in JudgeFeedback }

\* CorrectnessAgent.verify_correctness
VerifyPayloads ==
    { Failure("Failed to verify correctness"),
      [success |-> TRUE, verified |-> TRUE, issues |-> << >>, suggestions |-> << >>],
      [success |-> TRUE, verified |-> FALSE,
       issues |-> << "Answer inconsistent with setup" >>,
       suggestions |-> << "recompute the answer" >>] }

VARIABLES
    max_revisions,  \* PipelineConfig.max_revisions
    pc,             \* which helper generate_question awaits: "start", "select",
                    \* "generate", "verify", "quality"; "done" after its
                    \* return and "raised" after an exception left it
    attempt,        \* the loop variable of generate_question
    state,          \* PipelineState
    calls,          \* the helper calls made so far, the last one pending
    result,         \* the PipelineResult returned, None before
    verifier_reply  \* what the Correctness Verifier service answered, or would
                    \* have answered, to verify_correctness for state.question

\* PipelineController.generate_batch
VARIABLES
    count,          \* the count argument
    tasks,          \* the coroutines handed to asyncio.gather, by position: the
                    \* frame of each one that is not running
    current,        \* the position of the coroutine the event loop runs, whose
                    \* frame is pc, attempt, state, calls and result; 0 when
                    \* there is none
    batch_pc,       \* "gather" while generate_batch awaits asyncio.gather,
                    \* "done" after its return, "idle" when it was not called
    valid_results   \* the list generate_batch returned, empty before

batch_vars == << count, tasks, current, batch_pc, valid_results >>

\* OrchestratorAgent.generate_exam
VARIABLES
    exam_type,              \* the exam_type argument
    subtopic_questions,     \* exam_config["subtopic_questions"]
    exam_pc,                \* what generate_exam awaits: "gather", "images",
                            \* "insert", "create_exam", "add_to_pack"; "start"
                            \* before, "done" after its return
    retry_round,            \* the loop variable of _generate_thinking_skills
                            \* and _generate_math
    questions_by_subtopic,  \* the questions kept so far, by subtopic
    round_tasks,            \* the generate_batch calls of the round awaited:
                            \* the count asked per subtopic, 0 for none
    errors,                 \* the errors list of the generator method, and of
                            \* the dict it returned
    questions,              \* the questions list of generate_exam
    pack_id,                \* the local pack_id of generate_exam, "" before
                            \* it is read from exam_config
    exam                    \* the result dict of generate_exam

exam_vars ==
    << exam_type, subtopic_questions, exam_pc, retry_round,
       questions_by_subtopic, round_tasks, errors, questions, pack_id, exam >>

\* ConceptGuideAgent
VARIABLES
    concept_files,      \* the files of data/concepts/thinking_skills: the
                        \* concepts of each, by file stem
    _concept_graphs,    \* self._concept_graphs: the concepts by subtopic key
    _loaded,            \* self._loaded
    guide_task,         \* task_data of the task handle_task is called with,
                        \* None before
    guide_response,     \* what handle_task returned, None before
    executing,          \* the tasks BaseAgentExecutor.execute is running for
                        \* the agent, by arrival: state, task_data, result
    loads               \* how many times _ensure_loaded has read the files

registry_vars ==
    << concept_files, _concept_graphs, _loaded, guide_task, guide_response,
       executing, loads >>

\* QuestionGeneratorAgent, and the blueprint and question its caller keeps
VARIABLES
    gen_topic,          \* the topic of the concept: "math" or "thinking_skills"
    gen_blueprint,      \* the blueprint the caller holds (state.blueprint),
                        \* None before the first one
    gen_question,       \* the question the caller holds (state.question)
    gen_reply,          \* what handle_task returned last, None before
    gen_revisions,      \* how many revise_question calls have succeeded
    gen_calls           \* how many tasks the agent has served

generator_vars ==
    << gen_topic, gen_blueprint, gen_question, gen_reply, gen_revisions, gen_calls >>

\* QualityCheckerAgent
VARIABLES
    judge_input,        \* the type of the question sent to check_quality and
                        \* what the LLM does with the prompt
    judge_reply         \* what check_quality returned, None before

quality_vars == << judge_input, judge_reply >>

\* BaseAgentExecutor
VARIABLES
    host_tasks          \* one record per request of the service host: the
                        \* task it executes and the events enqueued for it

host_vars == << host_tasks >>

\* The variables of the services other than the Concept Guide.
service_vars == << generator_vars, quality_vars, host_vars >>

\* The variables PipelineController does not touch.
not_controller == << exam_vars, registry_vars, service_vars >>

\* The variables generate_question does not touch.
not_pipeline == << batch_vars, not_controller >>

pipeline_vars ==
    << max_revisions, pc, attempt, state, calls, result, verifier_reply >>

vars == << pipeline_vars, batch_vars, not_controller >>


(***************************************************************************)
(* The helper calls of PipelineController                                  *)
(***************************************************************************)

\* The first lines of every helper's try block: AGENT_ENDPOINTS[key] is looked
\* up and send_task is called with the message.  A key the dict does not hold
\* raises KeyError inside the try, so no request leaves: sent is FALSE then.
\* reply is the peer's answer, None while the call is pending.
Call(skill, key, a, message) ==
    [skill |-> skill, endpoint |-> key, sent |-> key \in AGENT_ENDPOINTS,
     attempt |-> a, message |-> message, reply |-> None]

\* The tail shared by _select_concept, _generate_question, _revise_question
\* and _check_quality: the parsed payload when it says success, else None;
\* None as well from the except branch.
Parsed(call, reply) ==
    IF call.sent THEN _parse_response(send_task(reply)) ELSE None

Succeeded(r) == r # None /\ Get(r, "success", FALSE)

_select_concept(call, reply) ==
    LET r == Parsed(call, reply)
    IN IF Succeeded(r) THEN Get(r, "selection", None) ELSE None

_generate_question(call, reply) ==
    LET r == Parsed(call, reply)
    IN IF Succeeded(r) THEN r ELSE None

_revise_question(call, reply) ==
    LET r == Parsed(call, reply)
    IN IF Succeeded(r) THEN r ELSE None

_check_quality(call, reply) ==
    LET r == Parsed(call, reply)
    IN IF Succeeded(r) THEN r ELSE None

\* What _verify_correctness returns when the check did not run.
AssumeVerified == [verified |-> TRUE, issues |-> << >>, suggestions |-> << >>]

\* _verify_correctness failing closed: a check that did not run counts as an
\* unverified answer.
VerifyFailClosed(call, reply) ==
    LET r == Parsed(call, reply)
    IN IF Succeeded(r)
       THEN r
       ELSE [verified |-> FALSE, issues |-> << "Answer verification failed" >>,
             suggestions |-> << >>]

_verify_correctness(call, reply) ==
    LET r == Parsed(call, reply)
    IN IF Succeeded(r) THEN r ELSE AssumeVerified

(***************************************************************************)
(* PipelineController.generate_question                                    *)
(***************************************************************************)

\* PipelineState(subtopic, difficulty)
NewState ==
    [concept_selection |-> None, blueprint |-> None, question |-> None,
     quality_result |-> None, revision_count |-> 0, errors |-> << >>,
     accepted |-> FALSE]

\* _create_result reporting the question of the state without its judgment.
_create_result_WithoutJudgment(st) ==
    [accepted |-> st.accepted,
     question |-> st.question,
     concept_id |-> IF st.concept_selection # None
                    THEN Get(Get(st.concept_selection, "concept", << >>), "id", None)
                    ELSE None,
     revision_count |-> st.revision_count,
     judgment |-> None,
     errors |-> st.errors]

\* PipelineController._create_result
_create_result(st) ==
    [accepted |-> st.accepted,
     question |-> st.question,
     concept_id |-> IF st.concept_selection # None
                    THEN Get(Get(st.concept_selection, "concept", << >>), "id", None)
                    ELSE None,
     revision_count |-> st.revision_count,
     judgment |-> st.quality_result,
     errors |-> st.errors]

\* Where the coroutine stands after a piece of controller code: awaiting the
\* helper call `call`, or returned with `result`.
Awaiting(where, st, a, call) ==
    [pc |-> where, state |-> st, attempt |-> a, call |-> call, result |-> None]

Returned(st, a) ==
    [pc |-> "done", state |-> st, attempt |-> a, call |-> None,
     result |-> _create_result(st)]

\* generate_question left by an exception: there is no PipelineResult.
Raised(st, a) ==
    [pc |-> "raised", state |-> st, attempt |-> a, call |-> None, result |-> None]

\* The read state.concept_selection.get("concept", {}).get(...), made after
\* _select_concept and again by _create_result, raises AttributeError.
ConceptReadRaises(st) ==
    /\ st.concept_selection # None
    /\ ~HasGet(Get(st.concept_selection, "concept", << >>))

\* The except branch of generate_question: the error is appended and
\* _create_result is called, outside any try.
PipelineError(st, a) ==
    LET s1 == [st EXCEPT !.errors = Append(@, [msg |-> "Pipeline error", attempt |-> a])]
    IN IF ConceptReadRaises(s1) THEN Raised(s1, a) ELSE Returned(s1, a)

\* The top of the loop body for loop value a: attempt 0 generates; a later
\* attempt revises with the feedback of state.quality_result, and reading
\* .get of a quality_result that is None raises into the except branch.
Attempt(st, a) ==
    LET s1 == [st EXCEPT !.revision_count = a]
    IN IF a = 0
       THEN Awaiting("generate", s1, a,
                Call("generate_question", "question_generator", a,
                     [action |-> "generate_question",
                      selection |-> s1.concept_selection]))
       ELSE IF s1.quality_result = None
       THEN PipelineError(s1, a)
       ELSE Awaiting("generate", s1, a,
                Call("revise_question", "question_generator", a,
                     [action |-> "revise_question",
                      question |-> s1.question,
                      blueprint |-> s1.blueprint,
                      issues |-> Get(s1.quality_result, "issues", << >>),
                      suggestions |-> Get(s1.quality_result, "suggestions", << >>)]))

\* Iterate with the range one too long: range(max_revisions + 2).
Iterate_OneMore(st, a) ==
    IF a > max_revisions + 1 THEN Returned(st, a - 1) ELSE Attempt(st, a)

\* Iterate with a floor of one revision: range(max(max_revisions, 1) + 1).
Iterate_AtLeastOne(st, a) ==
    IF a > max_revisions /\ a > 1 THEN Returned(st, a - 1) ELSE Attempt(st, a)

\* for attempt in range(max_revisions + 1), entered with loop value a: past
\* the range the loop is left and the result returned.
Iterate(st, a) ==
    IF a > max_revisions THEN Returned(st, a - 1) ELSE Attempt(st, a)

\* The pending call gets its reply (None when no request was sent), and the
\* coroutine moves to n.
Move(reply, n) ==
    /\ pc' = n.pc
    /\ state' = n.state
    /\ attempt' = n.attempt
    /\ result' = n.result
    /\ LET closed == [calls EXCEPT ![Len(calls)].reply =
                                       IF Last(calls).sent THEN reply ELSE None]
       IN calls' = IF n.call = None THEN closed ELSE Append(closed, n.call)
    /\ UNCHANGED << max_revisions, not_pipeline >>

\* No generate_batch is in progress.
NoBatch ==
    /\ count = 0
    /\ tasks = << >>
    /\ current = 0
    /\ batch_pc = "idle"
    /\ valid_results = << >>

\* No generate_exam is in progress.
\* ConceptGuideAgent is constructed and has served no task.
NoRegistry ==
    /\ concept_files = << >>
    /\ _concept_graphs = << >>
    /\ _loaded = FALSE
    /\ guide_task = None
    /\ guide_response = None
    /\ executing = << >>
    /\ loads = 0

\* QuestionGeneratorAgent has served no task.
NoGenerator ==
    /\ gen_topic = ""
    /\ gen_blueprint = None
    /\ gen_question = None
    /\ gen_reply = None
    /\ gen_revisions = 0
    /\ gen_calls = 0

\* QualityCheckerAgent has served no task.
NoJudge ==
    /\ judge_input = None
    /\ judge_reply = None

\* No service other than the Concept Guide has served a task.
NoServices == NoGenerator /\ NoJudge /\ host_tasks = << >>

NoExam ==
    /\ exam_type = ""
    /\ subtopic_questions = << >>
    /\ exam_pc = "idle"
    /\ retry_round = 0
    /\ questions_by_subtopic = << >>
    /\ round_tasks = << >>
    /\ errors = << >>
    /\ questions = << >>
    /\ pack_id = ""
    /\ exam = << >>

\* One call of generate_question on a new controller.
Init ==
    /\ max_revisions \in 0..MaxRevisionsBound
    /\ pc = "start"
    /\ attempt = 0
    /\ state = NewState
    /\ calls = << >>
    /\ result = None
    /\ verifier_reply = None
    /\ NoBatch
    /\ NoExam
    /\ NoRegistry
    /\ NoServices

\* generate_question up to its first await: the _select_concept call.
Start ==
    /\ pc = "start"
    /\ pc' = "select"
    /\ calls' = << Call("select_concept", "concept_guide", 0,
                        [action |-> "select_concept", exclude_ids |-> << >>]) >>
    /\ UNCHANGED << max_revisions, attempt, state, result, verifier_reply,
                    not_pipeline >>

\* _select_concept returns; a missing selection ends the pipeline, reading
\* the concept's name may raise, otherwise the loop is entered.
AfterSelect(reply) ==
    LET selection == _select_concept(Last(calls), reply)
        s1 == [state EXCEPT !.concept_selection = selection]
    IN IF selection = None
       THEN Returned([s1 EXCEPT !.errors =
                         Append(@, [msg |-> "Failed to select concept", attempt |-> 0])], 0)
       ELSE IF ConceptReadRaises(s1)
       THEN PipelineError(s1, 0)
       ELSE Iterate(s1, 0)

SelectReturn ==
    /\ pc = "select"
    /\ \E reply \in Replies(SelectPayloads) : Move(reply, AfterSelect(reply))
    /\ UNCHANGED verifier_reply

\* _generate_question or _revise_question returns; a missing result is logged
\* and the loop continues, otherwise _verify_correctness is called.
AfterGenerate(reply) ==
    LET call == Last(calls)
        gen_result == IF call.skill = "generate_question"
                      THEN _generate_question(call, reply)
                      ELSE _revise_question(call, reply)
    IN IF gen_result = None
       THEN Iterate([state EXCEPT !.errors =
                        Append(@, [msg |-> "Failed to generate question",
                                   attempt |-> attempt + 1])],
                    attempt + 1)
       ELSE LET s1 == [state EXCEPT !.blueprint = Get(gen_result, "blueprint", None),
                                    !.question = Get(gen_result, "question", None)]
            IN Awaiting("verify", s1, attempt,
                   Call("verify_correctness", "correctness", attempt,
                        [action |-> "verify_correctness",
                         question |-> s1.question, blueprint |-> s1.blueprint]))

GenerateReturn ==
    /\ pc = "generate"
    /\ \E reply \in Replies(GeneratorPayloads(Len(calls))) :
           Move(reply, AfterGenerate(reply))
    /\ UNCHANGED verifier_reply

\* _verify_correctness returns; an unverified answer becomes the feedback of
\* the next revision, otherwise _check_quality is called.
AfterVerify(reply) ==
    LET correctness_result == _verify_correctness(Last(calls), reply)
    IN IF correctness_result # None /\ ~Get(correctness_result, "verified", FALSE)
       THEN Iterate([state EXCEPT !.quality_result =
                        [accepted |-> FALSE,
                         issues |-> Get(correctness_result, "issues",
                                        << "Answer verification failed" >>),
                         suggestions |-> Get(correctness_result, "suggestions", << >>)]],
                    attempt + 1)
       ELSE Awaiting("quality", state, attempt,
                Call("check_quality", "quality_checker", attempt,
                     [action |-> "check_quality",
                      question |-> state.question, blueprint |-> state.blueprint]))

\* reply is what the Correctness Verifier answers for this question; the
\* controller sees it only when its request was sent.
VerifyReturn ==
    /\ pc = "verify"
    /\ \E reply \in Replies(VerifyPayloads) :
           /\ Move(reply, AfterVerify(reply))
           /\ verifier_reply' = reply

\* AfterQuality leaving the loop on an accepted judgment without setting
\* state.accepted.
AfterQuality_NotMarked(reply) ==
    LET quality_result == _check_quality(Last(calls), reply)
        s1 == [state EXCEPT !.quality_result = quality_result]
    IN IF quality_result = None
       THEN Iterate([s1 EXCEPT !.errors =
                        Append(@, [msg |-> "Quality check failed",
                                   attempt |-> attempt + 1])],
                    attempt + 1)
       ELSE IF Get(quality_result, "accepted", FALSE)
       THEN Returned(s1, attempt)
       ELSE Iterate(s1, attempt + 1)

\* _check_quality returns; an accepted judgment leaves the loop, anything
\* else continues it.
AfterQuality(reply) ==
    LET quality_result == _check_quality(Last(calls), reply)
        s1 == [state EXCEPT !.quality_result = quality_result]
    IN IF quality_result = None
       THEN Iterate([s1 EXCEPT !.errors =
                        Append(@, [msg |-> "Quality check failed",
                                   attempt |-> attempt + 1])],
                    attempt + 1)
       ELSE IF Get(quality_result, "accepted", FALSE)
       THEN Returned([s1 EXCEPT !.accepted = TRUE], attempt)
       ELSE Iterate(s1, attempt + 1)

QualityReturn ==
    /\ pc = "quality"
    /\ \E reply \in Replies(QualityPayloads) : Move(reply, AfterQuality(reply))
    /\ UNCHANGED verifier_reply

Next == Start \/ SelectReturn \/ GenerateReturn \/ VerifyReturn \/ QualityReturn

Spec == Init /\ [][Next]_vars

(***************************************************************************)
(* Vocabulary of the properties: the log of helper calls                   *)
(***************************************************************************)

Calls == 1..Len(calls)

\* Call i left the process as a request with this skill.
Requested(i, skill) == calls[i].sent /\ calls[i].skill = skill

\* Call i is over: the coroutine is past its await.
Answered(i) == i < Len(calls) \/ pc \in { "done", "raised" }

\* The payload the controller parsed from the answer to call i, None when
\* there is none.
PayloadOf(i) ==
    IF calls[i].sent /\ calls[i].reply # None
    THEN _parse_response(send_task(calls[i].reply))
    ELSE None

\* The answer to call i is a successful judgment with this status.
Judged(i, status) ==
    /\ Requested(i, "check_quality")
    /\ Succeeded(PayloadOf(i))
    /\ PayloadOf(i).status = status

NotAcceptedJudgment(i) == Judged(i, "needs_revision") \/ Judged(i, "rejected")

JudgeRequests == { i \in Calls : Requested(i, "check_quality") }
ReviseRequests == { i \in Calls : Requested(i, "revise_question") }

(***************************************************************************)
(* Properties of one pipeline run                                          *)
(***************************************************************************)

\* C1: one pipeline run sends at most max_revisions + 1 check_quality
\* requests to the Judge, whatever the agents answer.
C1_JudgeRequestsBounded == Cardinality(JudgeRequests) <= max_revisions + 1

C1_Witness ==
    /\ pc = "done"
    /\ max_revisions >= 1
    /\ Cardinality(JudgeRequests) = max_revisions + 1

\* C2: after a rejected verdict the pipeline is in FAIL and no further request
\* (no revise_question) is sent; every revise_question request follows a
\* needs_revision verdict, or a correctness check answered verified=false, of
\* an attempt below max_revisions.
C2_RejectedIsTerminal ==
    /\ \A i \in Calls :
           Judged(i, "rejected") /\ Answered(i) =>
               /\ i = Len(calls)
               /\ pc = "done"
               /\ ~result.accepted
    /\ \A i \in ReviseRequests :
           /\ i > 1
           /\ calls[i - 1].attempt < max_revisions
           /\ \/ Judged(i - 1, "needs_revision")
              \/ /\ Requested(i - 1, "verify_correctness")
                 /\ Succeeded(PayloadOf(i - 1))
                 /\ ~PayloadOf(i - 1).verified

\* C3: with max_revisions = 0 no revise_question request is ever sent, and
\* once a judgment that is not accepted has come back the pipeline has ended
\* with accepted = false.
C3_ZeroRevisions ==
    max_revisions = 0 =>
        /\ ReviseRequests = {}
        /\ \A i \in Calls :
               NotAcceptedJudgment(i) /\ Answered(i) =>
                   /\ pc = "done"
                   /\ result # None
                   /\ ~result.accepted

C3_Witness ==
    /\ max_revisions = 0
    /\ pc = "done"
    /\ \E i \in Calls : NotAcceptedJudgment(i)

\* The run in which everything succeeds and the Judge answers needs_revision
\* k times and then accepted: the concept is selected, every generate and
\* revise call succeeds, every correctness check passes.
SucceedsAfter(k) ==
    /\ \A i \in Calls :
           /\ calls[i].skill \in { "select_concept", "generate_question",
                                   "revise_question", "check_quality" }
                  => Succeeded(PayloadOf(i))
           /\ calls[i].skill = "verify_correctness" /\ Answered(i)
                  => _verify_correctness(calls[i], calls[i].reply).verified
    /\ Cardinality(JudgeRequests) = k + 1
    /\ Cardinality({ i \in JudgeRequests : Judged(i, "needs_revision") }) = k
    /\ Judged(Len(calls), "accepted")

\* C4: for every k in 0..max_revisions, the run that succeeds after k
\* needs_revision verdicts returns accepted = true, revision_count = k and a
\* question; the generate_question call is made with attempt 0 and the j-th
\* revise_question call with attempt j.
C4_AcceptedAfterRevisions ==
    /\ \A k \in 0..max_revisions :
           pc = "done" /\ SucceedsAfter(k) =>
               /\ result.accepted
               /\ result.revision_count = k
               /\ result.question # None
    /\ \A i \in Calls :
           /\ calls[i].skill = "generate_question" => calls[i].attempt = 0
           /\ calls[i].skill = "revise_question" =>
                  calls[i].attempt =
                      Cardinality({ j \in 1..i : calls[j].skill = "revise_question" })

C4_Witness ==
    /\ pc = "done"
    /\ SucceedsAfter(2)
    /\ result.accepted
    /\ result.revision_count = 2

\* The Correctness Verifier's answer says success with verified = false.
Unverified(reply) ==
    /\ reply # None
    /\ LET r == _parse_response(send_task(reply))
       IN Succeeded(r) /\ ~Get(r, "verified", FALSE)

\* Call i is the latest _verify_correctness call and is over, so that
\* verifier_reply is the Correctness Verifier's answer for its question.
LatestVerify(i) ==
    /\ calls[i].skill = "verify_correctness"
    /\ Answered(i)
    /\ \A j \in Calls : j > i => calls[j].skill # "verify_correctness"

\* C5: when the Correctness Verifier answers verified = false for the question
\* of an attempt below max_revisions, the pipeline does not end: the next call
\* is the revise_question request carrying exactly the verifier's issues and
\* suggestions, made with the attempt counter one higher.
C5_UnverifiedIsRevised ==
    \A i \in Calls :
        LatestVerify(i) /\ Unverified(verifier_reply)
                        /\ calls[i].attempt < max_revisions =>
            /\ i < Len(calls)
            /\ Requested(i + 1, "revise_question")
            /\ calls[i + 1].message.issues = JsonLoads(verifier_reply.text).issues
            /\ calls[i + 1].message.suggestions = JsonLoads(verifier_reply.text).suggestions
            /\ calls[i + 1].attempt = calls[i].attempt + 1

\* The requests that left the process, in the order they were sent.
IsSent(c) == c.sent
Requests == SelectSeq(calls, IsSent)

\* C6: the calls of one pipeline are sequential (a request is sent only when
\* every earlier request has its response) and ordered: every check_quality
\* request comes right after a verify_correctness request sent to the
\* Correctness Verifier for the same question, which comes right after the
\* generate_question or revise_question request whose response carried it.
C6_SequentialOrder ==
    /\ \A i \in Calls : i < Len(calls) /\ calls[i].sent => calls[i].reply # None
    /\ \A i \in 1..Len(Requests) :
           Requests[i].skill = "check_quality" =>
               /\ i > 2
               /\ Requests[i - 1].skill = "verify_correctness"
               /\ Requests[i - 1].endpoint = "correctness"
               /\ Requests[i - 1].message.question = Requests[i].message.question
               /\ Requests[i - 2].skill \in { "generate_question", "revise_question" }
               /\ JsonLoads(Requests[i - 2].reply.text).question
                      = Requests[i].message.question

\* The reply is a transport error or a result whose text does not parse.
Unreadable(reply) ==
    /\ reply # None
    /\ reply.kind = "result" => JsonLoads(reply.text) = None

\* C7: once a generate_question, revise_question or check_quality request has
\* ended in a transport error or an unparseable payload, the pipeline has
\* ended in FAIL with errors and that request was the last one it sent.
C7_TransportErrorIsTerminal ==
    \A i \in Calls :
        /\ calls[i].skill \in { "generate_question", "revise_question", "check_quality" }
        /\ calls[i].sent
        /\ Unreadable(calls[i].reply)
        => /\ i = Len(calls)
           /\ pc = "done"
           /\ ~result.accepted
           /\ result.errors # << >>

\* C8: every PipelineResult with accepted = false carries a non-empty errors
\* list, the result of max_revisions + 1 non-accepted judgments included.
C8_FailureHasErrors ==
    pc = "done" /\ ~result.accepted => result.errors # << >>

\* The verify_correctness call i did not run: no request left, or its
\* response was a transport error, unparseable, or said success = false.
VerifyDidNotRun(i) ==
    /\ calls[i].skill = "verify_correctness"
    /\ Answered(i)
    /\ ~Succeeded(PayloadOf(i))

\* C9: when the verify_correctness call did not run, the next call is the
\* check_quality request for the same question in the same attempt: the
\* pipeline neither ends nor revises on the verifier's failure.
C9_VerifierFailurePasses ==
    \A i \in Calls :
        VerifyDidNotRun(i) =>
            /\ i < Len(calls)
            /\ Requested(i + 1, "check_quality")
            /\ calls[i + 1].message.question = calls[i].message.question
            /\ calls[i + 1].attempt = calls[i].attempt

C9_Witness ==
    \E i \in Calls :
        /\ VerifyDidNotRun(i)
        /\ Requested(i + 1, "check_quality")
        /\ Answered(i + 1)

\* Some request of the pipeline timed out.
TimedOut == \E i \in Calls : calls[i].sent /\ calls[i].reply # None
                                 /\ calls[i].reply.kind = "timeout"

\* C10: generate_question ends with a PipelineResult for every sequence of
\* agent responses, and when a peer call timed out the result has
\* accepted = false.
C10_TimeoutFails ==
    pc \in { "done", "raised" } =>
        /\ result # None
        /\ TimedOut => ~result.accepted

(***************************************************************************)
(* PipelineController.generate_batch                                       *)
(*                                                                         *)
(* asyncio.gather runs the count coroutines of generate_question on one    *)
(* event loop: one of them runs at a time, up to its next await, and any   *)
(* suspended one may be resumed next.  The running coroutine's frame is in *)
(* the variables of generate_question; the others wait in tasks.           *)
(***************************************************************************)

\* The largest count * (max_revisions + 1) explored: the loop iterations one
\* batch can make.
MaxBatchWork == 2

\* The frame of the running coroutine.
Frame ==
    [pc |-> pc, attempt |-> attempt, state |-> state, calls |-> calls,
     result |-> result]

\* The frame of a coroutine object that has not started.
NewFrame ==
    [pc |-> "start", attempt |-> 0, state |-> NewState, calls |-> << >>,
     result |-> None]

\* tasks = [generate_question(..., exclude_concept_ids=[]) for _ in range(n)]
NewTasks(n) == [i \in 1..n |-> NewFrame]

FrameOf(i) == IF i = current THEN Frame ELSE tasks[i]

\* The coroutine returned or raised.
Over(f) == f.pc \in { "done", "raised" }

\* The event loop has no coroutine of generate_question loaded.
NoFrame ==
    /\ pc = "idle"
    /\ attempt = 0
    /\ state = NewState
    /\ calls = << >>
    /\ result = None
    /\ verifier_reply = None

InitBatch ==
    /\ max_revisions \in 0..MaxRevisionsBound
    /\ count \in 0..MaxBatchWork
    /\ count * (max_revisions + 1) <= MaxBatchWork
    /\ tasks = NewTasks(count)
    /\ current = 0
    /\ batch_pc = "gather"
    /\ valid_results = << >>
    /\ NoFrame
    /\ NoExam
    /\ NoRegistry
    /\ NoServices

\* The event loop leaves the running coroutine at its await, or after its
\* end, and resumes coroutine i.
Resume(i) ==
    /\ batch_pc = "gather"
    /\ i # current
    /\ pc # "start"
    /\ ~Over(tasks[i])
    /\ pc' = tasks[i].pc
    /\ attempt' = tasks[i].attempt
    /\ state' = tasks[i].state
    /\ calls' = tasks[i].calls
    /\ result' = tasks[i].result
    /\ tasks' = [j \in 1..count |->
                    IF j = i THEN None ELSE IF j = current THEN Frame ELSE tasks[j]]
    /\ current' = i
    /\ UNCHANGED << max_revisions, verifier_reply, count, batch_pc, valid_results,
                    not_controller >>

\* VerifyReturn of the running coroutine, without the record of what the
\* verifier answers.
VerifyReturnInBatch ==
    /\ pc = "verify"
    /\ \E reply \in Replies(VerifyPayloads) : Move(reply, AfterVerify(reply))
    /\ UNCHANGED verifier_reply

\* What gather holds for a coroutine that raised.
RaisedException == [exception |-> "AttributeError"]

IsException(r) == "exception" \in DOMAIN r

\* gather returning as soon as one coroutine raised, as with
\* asyncio.wait(return_when=FIRST_EXCEPTION).
GatherDone_FirstException ==
    \/ \A i \in 1..count : Over(FrameOf(i))
    \/ \E i \in 1..count : FrameOf(i).pc = "raised"

\* await asyncio.gather(*tasks, return_exceptions=True) returns when every
\* coroutine has returned or raised.
GatherDone == \A i \in 1..count : Over(FrameOf(i))

\* The list gather returns: by position, the return value or the exception.
GatherResults ==
    [i \in 1..count |->
        IF FrameOf(i).pc = "raised" THEN RaisedException ELSE FrameOf(i).result]

\* PipelineResult(accepted=False, question=None, errors=[...]), the other
\* fields at their defaults.
GenerationError ==
    [accepted |-> FALSE, question |-> None, concept_id |-> None,
     revision_count |-> 0, judgment |-> None,
     errors |-> << [msg |-> "Generation error", attempt |-> 0] >>]

\* The loop over results leaving the exceptions out.
ValidResults_SkipExceptions(results) ==
    LET IsResult(r) == ~IsException(r)
    IN SelectSeq(results, IsResult)

\* The loop over results: an exception becomes a failed PipelineResult.
ValidResults(results) ==
    [i \in 1..Len(results) |->
        IF IsException(results[i]) THEN GenerationError ELSE results[i]]

\* generate_batch from the return of gather to its own return.
BatchReturn ==
    /\ batch_pc = "gather"
    /\ GatherDone
    /\ batch_pc' = "done"
    /\ valid_results' = ValidResults(GatherResults)
    /\ UNCHANGED << pipeline_vars, count, tasks, current, not_controller >>

NextBatch ==
    \/ Start
    \/ SelectReturn
    \/ GenerateReturn
    \/ VerifyReturnInBatch
    \/ QualityReturn
    \/ \E i \in 1..count : Resume(i)
    \/ BatchReturn

SpecBatch == InitBatch /\ [][NextBatch]_vars

(***************************************************************************)
(* Properties of generate_batch                                            *)
(***************************************************************************)

Pipelines == 1..count

\* The select_concept requests coroutine frame f has sent.
SelectRequests(f) ==
    { k \in 1..Len(f.calls) :
          f.calls[k].sent /\ f.calls[k].skill = "select_concept" }

IsPipelineResult(r) ==
    DOMAIN r = { "accepted", "question", "concept_id", "revision_count",
                 "judgment", "errors" }

\* C11: generate_batch with count = N starts exactly N pipelines; every
\* pipeline that has started has sent exactly one select_concept request,
\* with an empty exclude_ids; and the list generate_batch returns holds
\* exactly N PipelineResult values, returned, failed or raised alike.
C11_BatchFanOut ==
    /\ DOMAIN tasks = Pipelines
    /\ \A i \in Pipelines :
           LET f == FrameOf(i)
           IN /\ Cardinality(SelectRequests(f)) = IF f.pc = "start" THEN 0 ELSE 1
              /\ \A k \in SelectRequests(f) :
                     f.calls[k].message.exclude_ids = << >>
    /\ batch_pc = "done" =>
           /\ Len(valid_results) = count
           /\ \A i \in Pipelines :
                  /\ IsPipelineResult(valid_results[i])
                  /\ Cardinality(SelectRequests(FrameOf(i))) = 1

C11_Witness ==
    /\ batch_pc = "done"
    /\ count >= 2
    /\ \E i, j \in Pipelines :
           /\ FrameOf(i).pc = "raised"
           /\ FrameOf(j).pc = "done"
           /\ valid_results[j].accepted

\* The answers frame f got, by call.
OwnResponses(f) == [k \in 1..Len(f.calls) |-> f.calls[k].reply]

\* C12: in a batch, a step of one pipeline (a failure or an exception
\* included) leaves the frame of every sibling as it was; generate_batch
\* returns only when every pipeline has returned or raised, with each returned
\* pipeline's own result at its position; and two pipelines that made the same
\* calls and got the same responses end alike, with the same result.
C12_SiblingsIndependent ==
    /\ [][\A j \in Pipelines : j # current' => FrameOf(j)' = FrameOf(j)]_vars
    /\ [](batch_pc = "done" =>
              \A i \in Pipelines :
                  /\ Over(FrameOf(i))
                  /\ FrameOf(i).pc = "done" => valid_results[i] = FrameOf(i).result)
    /\ [](\A i, j \in Pipelines :
              /\ Over(FrameOf(i))
              /\ Over(FrameOf(j))
              /\ FrameOf(i).calls = FrameOf(j).calls
              => /\ FrameOf(i).pc = FrameOf(j).pc
                 /\ FrameOf(i).result = FrameOf(j).result)

\* One pipeline failed or raised at select_concept while its sibling went on
\* to an accepted question.
C12_Witness ==
    /\ batch_pc = "done"
    /\ \E i, j \in Pipelines :
           /\ Len(FrameOf(i).calls) = 1
           /\ \/ FrameOf(i).pc = "raised"
              \/ ~valid_results[i].accepted
           /\ Len(FrameOf(j).calls) > 1
           /\ valid_results[j].accepted
           /\ valid_results[j] = FrameOf(j).result

(***************************************************************************)
(* OrchestratorAgent.generate_exam                                         *)
(*                                                                         *)
(* generate_exam is one coroutine; _generate_thinking_skills and           *)
(* _generate_math, which have the same loop, run inside it.  Each action   *)
(* is the code between two awaits.  The pipelines of generate_batch and    *)
(* the image and database agents are the environment: a batch of count n   *)
(* answers with n PipelineResult values, the agents with any reply.        *)
(***************************************************************************)

\* The largest target count of a subtopic explored.
MaxQuota == 2

max_retry_rounds == 3

\* The keys of subtopic_questions, in the order of the dict.
SubtopicOrder == << "deduction", "spatial_reasoning" >>

Subtopics == { SubtopicOrder[i] : i \in 1..Len(SubtopicOrder) }

\* The types generate_exam serves, and one it does not know.
ExamTypes == { "thinking_skills", "math", "reading", "writing" }

\* exam_config["subtopic_questions"]: a target count per subtopic, zero and
\* negative ones included.
SubtopicQuestions == [Subtopics -> -1..MaxQuota]

\* exam_config["pack_id"], "" for none.  generate_exam reads this key, and
\* the booleans enable_images and skip_database, once each, when it
\* reaches them.
PackIds == { "", "pack-1" }

\* config.topic_uuids
topic_uuids ==
    [reading |-> [uuid |-> "8e64a8a1"], mathematics |-> [uuid |-> "64cc2488"],
     thinking_skills |-> [uuid |-> "096feb43"], writing |-> [uuid |-> "f2a2bd14"]]

PipelineResult(accepted, question, errs) ==
    [accepted |-> accepted, question |-> question, concept_id |-> None,
     revision_count |-> 0, judgment |-> None, errors |-> errs]

\* The PipelineResult values a pipeline of the batch for subtopic can return:
\* an accepted question, which needs a diagram when the subtopic is spatial;
\* not accepted after the last revision, with the draft judged last as its
\* question and no errors; not accepted without a question.
BatchOutcomes(subtopic) ==
    { PipelineResult(TRUE, [subtopic |-> subtopic,
                            requires_image |-> subtopic = "spatial_reasoning"], << >>),
      PipelineResult(FALSE, [subtopic |-> subtopic,
                             requires_image |-> subtopic = "spatial_reasoning",
                             draft |-> TRUE], << >>),
      PipelineResult(FALSE, None, << "Failed to select concept" >>) }

\* What generate_batch(subtopic, count=n) can return.
generate_batch(subtopic, n) == [1..n -> BatchOutcomes(subtopic)]

\* The round asking the full target count each time.
Needed_FullTarget(qbs, subtopic) ==
    LET target_count == subtopic_questions[subtopic]
    IN IF target_count <= 0 THEN 0 ELSE target_count

\* The count of the generate_batch call a round makes for subtopic, 0 when it
\* makes none.
Needed(qbs, subtopic) ==
    LET target_count == subtopic_questions[subtopic]
        needed == target_count - Len(qbs[subtopic])
    IN IF target_count <= 0 THEN 0
       ELSE IF needed > 0 THEN needed ELSE 0

\* The results loop keeping every result that has a question.
IsKept_AnyQuestion(r) == r.question # None

\* if result.accepted and result.question
IsKept(r) == r.accepted /\ r.question # None

\* The results loop with questions_by_subtopic[subtopic] replaced by the new
\* questions of the round.
KeptQuestions_Replace(qs, results) ==
    LET kept == SelectSeq(results, IsKept)
    IN [k \in 1..Len(kept) |-> kept[k].question]

\* The results loop for one subtopic: the questions appended.
KeptQuestions(qs, results) ==
    LET kept == SelectSeq(results, IsKept)
    IN qs \o [k \in 1..Len(kept) |-> kept[k].question]

RECURSIVE OtherErrors(_)
\* The results loop for one subtopic: the errors of the results not kept.
OtherErrors(results) ==
    IF results = << >> THEN << >>
    ELSE IF IsKept(Head(results)) THEN OtherErrors(Tail(results))
    ELSE Head(results).errors \o OtherErrors(Tail(results))

RECURSIVE Flatten(_, _)
\* The concatenation of by_subtopic's lists in the order of the keys.
Flatten(order, by_subtopic) ==
    IF order = << >> THEN << >>
    ELSE by_subtopic[Head(order)] \o Flatten(Tail(order), by_subtopic)

\* The dict the generator method returns.
QuestionsResult(qbs, errs) ==
    LET all_questions == Flatten(SubtopicOrder, qbs)
    IN [success |-> TRUE, questions |-> all_questions,
        total_questions |-> Len(all_questions),
        errors |-> IF errs # << >> THEN errs ELSE None]

AddStep(res, step) == [res EXCEPT !.steps = Append(@, step)]

\* The last step left as it was appended.
SetLastStep_Forgotten(res, fields) == res

\* result["steps"][-1][...] = ...
SetLastStep(res, fields) ==
    [res EXCEPT !.steps[Len(res.steps)] = fields @@ @]

\* generate_exam returned res.
ExamReturned(res, qs) == [pc |-> "done", exam |-> res, questions |-> qs]

\* generate_exam awaits the call of where.
ExamAwaiting(where, res, qs) == [pc |-> where, exam |-> res, questions |-> qs]

\* Lines 260-264.
Finalize(res, qs) ==
    ExamReturned([success |-> TRUE, total_questions |-> Len(qs),
                  questions |-> qs] @@ res, qs)

\* Step 3 up to its await.
DatabaseStep(res, qs, skip_database) ==
    IF skip_database
    THEN Finalize(AddStep(res, [step |-> "insert_questions", status |-> "skipped"]),
                  qs)
    ELSE ExamAwaiting("insert",
                      AddStep(res, [step |-> "insert_questions",
                                    status |-> "in_progress"]),
                      qs)

NeedsImage(q) == Get(q, "requires_image", FALSE)

\* Step 2 up to its first await.
ImagesStep(res, qs, enable_images, skip_database) ==
    LET questions_needing_images ==
            IF enable_images THEN SelectSeq(qs, NeedsImage) ELSE << >>
    IN IF questions_needing_images # << >>
       THEN ExamAwaiting("images",
                         AddStep(res, [step |-> "generate_images",
                                       status |-> "in_progress",
                                       count |-> Len(questions_needing_images)]),
                         qs)
       ELSE DatabaseStep(res, qs, skip_database)

\* for q in questions: q["topic_id"] = topic_id
TaggedQuestions(qs) ==
    [k \in 1..Len(qs) |-> [topic_id |-> Get(topic_uuids, exam_type, None)] @@ qs[k]]

\* generate_exam from the return of the generator method to its next await.
AfterQuestions(res, questions_result, enable_images, skip_database) ==
    IF ~Get(questions_result, "success", FALSE)
    THEN ExamReturned(
             [success |-> FALSE] @@
             SetLastStep(res, [status |-> "failed",
                               error |-> Get(questions_result, "error",
                                             "Unknown error")]),
             << >>)
    ELSE ImagesStep(
             SetLastStep(res, [status |-> "completed",
                               question_count |->
                                   Get(questions_result, "total_questions", 0)]),
             TaggedQuestions(Get(questions_result, "questions", << >>)),
             enable_images, skip_database)

\* The loop with one more round: range(max_retry_rounds + 2).
RoundsOver_OneMore(r) == r > max_retry_rounds + 1

\* for retry_round in range(max_retry_rounds + 1) is past its range at r.
RoundsOver(r) == r > max_retry_rounds

NoQuestions == [s \in Subtopics |-> << >>]

NoTasks == [s \in Subtopics |-> 0]

\* The loop of the generator method entered with loop value r, generate_exam
\* having built res: the tasks of the round are built and gathered, or the
\* loop is left, the method returns and generate_exam runs on to its next
\* await.
Round(res, r, qbs, errs) ==
    LET needed == [s \in Subtopics |-> Needed(qbs, s)]
    IN IF RoundsOver(r) \/ needed = NoTasks
       THEN \E enable_images, skip_database \in BOOLEAN :
                LET n == AfterQuestions(res, QuestionsResult(qbs, errs),
                                        enable_images, skip_database)
                IN /\ exam_pc' = n.pc
                   /\ exam' = n.exam
                   /\ questions' = n.questions
                   /\ errors' = errs
                   /\ retry_round' = 0
                   /\ questions_by_subtopic' = NoQuestions
                   /\ round_tasks' = NoTasks
                   /\ UNCHANGED << exam_type, subtopic_questions, pack_id >>
       ELSE /\ exam_pc' = "gather"
            /\ exam' = res
            /\ retry_round' = r
            /\ questions_by_subtopic' = qbs
            /\ round_tasks' = needed
            /\ errors' = errs
            /\ UNCHANGED << exam_type, subtopic_questions, questions, pack_id >>

\* generate_exam goes on to n, outside the generator method.
Continue(n) ==
    /\ exam_pc' = n.pc
    /\ exam' = n.exam
    /\ questions' = n.questions
    /\ UNCHANGED << exam_type, subtopic_questions, retry_round,
                    questions_by_subtopic, round_tasks, errors >>

InitExam ==
    /\ exam_type \in ExamTypes
    /\ subtopic_questions \in SubtopicQuestions
    /\ exam_pc = "start"
    /\ retry_round = 0
    /\ questions_by_subtopic = NoQuestions
    /\ round_tasks = NoTasks
    /\ errors = << >>
    /\ questions = << >>
    /\ pack_id = ""
    /\ exam = << >>
    /\ max_revisions = 0
    /\ NoFrame
    /\ NoBatch
    /\ NoRegistry
    /\ NoServices

\* generate_exam up to its first await, or to its return.
ExamStart ==
    /\ exam_pc = "start"
    /\ UNCHANGED << pipeline_vars, batch_vars, registry_vars, service_vars >>
    /\ LET res == [exam_type |-> exam_type,
                   steps |-> << [step |-> "generate_questions",
                                 status |-> "in_progress"] >>]
       IN IF exam_type \notin { "thinking_skills", "math", "reading" }
          THEN /\ Continue(ExamReturned([error |-> "Unsupported exam type"], << >>))
               /\ UNCHANGED pack_id
          ELSE IF exam_type = "reading"
          THEN /\ Continue(AfterQuestions(res,
                               [error |-> "Reading agent not implemented yet"],
                               TRUE, FALSE))
               /\ UNCHANGED pack_id
          ELSE Round(res, 0, questions_by_subtopic, errors)

\* asyncio.gather returns the lists of the round's batches; the results loop
\* runs, and the next round is entered.
GatherReturn ==
    /\ exam_pc = "gather"
    /\ UNCHANGED << pipeline_vars, batch_vars, registry_vars, service_vars >>
    /\ \E first \in generate_batch(SubtopicOrder[1], round_tasks[SubtopicOrder[1]]),
          second \in generate_batch(SubtopicOrder[2], round_tasks[SubtopicOrder[2]]) :
           LET all_results == [s \in Subtopics |->
                                   IF s = SubtopicOrder[1] THEN first ELSE second]
               qbs == [s \in Subtopics |->
                           KeptQuestions(questions_by_subtopic[s], all_results[s])]
               errs == errors \o
                           Flatten(SubtopicOrder,
                                   [s \in Subtopics |-> OtherErrors(all_results[s])])
           IN Round(exam, retry_round + 1, qbs, errs)

\* OrchestratorAgent._parse_a2a_response on a dict from send_task.
_parse_a2a_response(response) ==
    IF response = None THEN [error |-> "No response"]
    ELSE IF "error" \in DOMAIN response THEN [error |-> response.error]
    ELSE LET text == response.status.message.parts[1].text
         IN IF text.format = "json" THEN text.value
            ELSE [error |-> "Invalid JSON response"]

\* The replies of the image and database agents explored: a timeout, and a
\* result in either encoding.
AgentReplies(payloads) ==
    { r \in Replies(payloads) : r.kind \in { "timeout", "result" } }

\* DatabaseAgent.insert_questions
InsertPayloads(qs) ==
    { [success |-> FALSE, inserted_count |-> 0, inserted_ids |-> << >>,
       errors |-> << "insert failed" >>],
      [success |-> TRUE, inserted_count |-> Len(qs),
       inserted_ids |-> [k \in 1..Len(qs) |-> k], errors |-> << >>] }

\* DatabaseAgent.create_exam
CreateExamPayloads ==
    { Failure("create_exam failed"), [success |-> TRUE, exam_id |-> "exam-1"] }

\* DatabaseAgent.handle_task knows no action add_exam_to_pack.
AddToPackPayloads == { [error |-> "Unknown action: add_exam_to_pack"] }

\* The loop over questions_needing_images: every _generate_image call has
\* returned, and the questions whose reply held an image_url carry it.  Then
\* step 3 up to its await.
ImagesReturn ==
    /\ exam_pc = "images"
    /\ UNCHANGED << pipeline_vars, batch_vars, registry_vars, service_vars, pack_id >>
    /\ \E with_url \in SUBSET { k \in 1..Len(questions) : NeedsImage(questions[k]) },
          skip_database \in BOOLEAN :
           LET qs == [k \in 1..Len(questions) |->
                         IF k \in with_url
                         THEN [image_url |-> "https://r2/diagram.png"] @@ questions[k]
                         ELSE questions[k]]
           IN Continue(DatabaseStep(SetLastStep(exam, [status |-> "completed"]),
                                    qs, skip_database))

\* _insert_questions returns.
InsertReturn ==
    /\ exam_pc = "insert"
    /\ UNCHANGED << pipeline_vars, batch_vars, registry_vars, service_vars, pack_id >>
    /\ \E reply \in AgentReplies(InsertPayloads(questions)) :
           LET db_result == _parse_a2a_response(send_task(reply))
           IN IF ~Get(db_result, "success", FALSE)
              THEN Continue(Finalize(
                       SetLastStep(exam, [status |-> "failed",
                                          error |-> Get(db_result, "error",
                                                        "Database error")]),
                       questions))
              ELSE Continue(ExamAwaiting("create_exam",
                       AddStep(
                           SetLastStep(exam,
                               [status |-> "completed",
                                inserted_count |-> Get(db_result, "inserted_count", 0)]),
                           [step |-> "create_exam", status |-> "in_progress"]),
                       questions))

\* _create_exam returns.
CreateExamReturn ==
    /\ exam_pc = "create_exam"
    /\ UNCHANGED << pipeline_vars, batch_vars, registry_vars, service_vars >>
    /\ \E reply \in AgentReplies(CreateExamPayloads) :
           LET exam_result == _parse_a2a_response(send_task(reply))
           IN IF Get(exam_result, "success", FALSE)
              THEN LET res == [exam_id |-> Get(exam_result, "exam_id", "")] @@
                                  SetLastStep(exam, [status |-> "completed"])
                   IN \E id \in PackIds :
                          /\ pack_id' = id
                          /\ IF id # "" /\ res.exam_id # ""
                             THEN Continue(ExamAwaiting("add_to_pack",
                                      AddStep(res, [step |-> "add_to_pack",
                                                    status |-> "in_progress"]),
                                      questions))
                             ELSE Continue(Finalize(res, questions))
              ELSE /\ UNCHANGED pack_id
                   /\ Continue(Finalize(
                          SetLastStep(exam, [status |-> "failed",
                                             error |-> Get(exam_result, "error", "")]),
                          questions))

\* _add_exam_to_pack returns.
AddToPackReturn ==
    /\ exam_pc = "add_to_pack"
    /\ UNCHANGED << pipeline_vars, batch_vars, registry_vars, service_vars, pack_id >>
    /\ \E reply \in AgentReplies(AddToPackPayloads) :
           LET pack_result == _parse_a2a_response(send_task(reply))
           IN IF Get(pack_result, "success", FALSE)
              THEN Continue(Finalize(
                       [pack_id |-> pack_id] @@
                       SetLastStep(exam, [status |-> "completed",
                                          pack_id |-> pack_id,
                                          exam_order |-> Get(pack_result, "exam_order", 0)]),
                       questions))
              ELSE Continue(Finalize(
                       SetLastStep(exam, [status |-> "failed",
                                          error |-> Get(pack_result, "error", "")]),
                       questions))

NextExam ==
    \/ ExamStart
    \/ GatherReturn
    \/ ImagesReturn
    \/ InsertReturn
    \/ CreateExamReturn
    \/ AddToPackReturn

SpecExam == InitExam /\ [][NextExam]_vars

\* The handler of POST /api/exams/generate: the HTTP status of the response
\* for the dict generate_exam returned.
HttpStatus(res) == IF Get(res, "success", FALSE) THEN 200 ELSE 500

(***************************************************************************)
(* Properties of generate_exam                                             *)
(***************************************************************************)

RECURSIVE SumOver(_, _)
\* The sum of f over the subtopics of order.
SumOver(order, f) ==
    IF order = << >> THEN 0 ELSE f[Head(order)] + SumOver(Tail(order), f)

\* The questions kept so far for subtopic s: in the generator method's dict
\* while it runs, in the questions list of generate_exam afterwards.
AcceptedCount(s) ==
    IF exam_pc = "gather"
    THEN Len(questions_by_subtopic[s])
    ELSE Cardinality({ k \in 1..Len(questions) : questions[k].subtopic = s })

\* The unmet quota of s: target count minus questions accepted so far.
Shortfall(s) == subtopic_questions[s] - AcceptedCount(s)

PositiveQuotas == [s \in Subtopics |-> IF subtopic_questions[s] > 0
                                       THEN subtopic_questions[s] ELSE 0]

\* The round awaited asks, for every subtopic, for as many pipelines as the
\* subtopic is short of its target count, and for none when it is not short.
RoundAsksShortfall ==
    \A s \in Subtopics :
        round_tasks[s] = IF Shortfall(s) > 0 THEN Shortfall(s) ELSE 0

\* C13 as stated: in every round the number of pipelines requested for each
\* subtopic equals its unmet quota, none for a subtopic with no shortfall,
\* and the round launches no more pipelines than the sum of the subtopic
\* quotas.
C13_RoundWithinQuotaSum ==
    exam_pc = "gather" =>
        /\ RoundAsksShortfall
        /\ SumOver(SubtopicOrder, round_tasks)
               <= SumOver(SubtopicOrder, subtopic_questions)

\* C13 amended: in every round the number of pipelines requested for each
\* subtopic equals its unmet quota, none for a subtopic with no shortfall,
\* and the round launches no more pipelines than the sum of the positive
\* subtopic quotas.
C13_RoundWithinPositiveQuotas ==
    exam_pc = "gather" =>
        /\ RoundAsksShortfall
        /\ SumOver(SubtopicOrder, round_tasks)
               <= SumOver(SubtopicOrder, PositiveQuotas)

\* A retry round that asks for the one question a subtopic is short of, and
\* for none for the subtopic that is full.
C13_Witness ==
    /\ exam_pc = "gather"
    /\ retry_round >= 1
    /\ \E s, t \in Subtopics :
           /\ subtopic_questions[s] = 2
           /\ AcceptedCount(s) = 1
           /\ round_tasks[s] = 1
           /\ subtopic_questions[t] >= 1
           /\ Shortfall(t) = 0
           /\ round_tasks[t] = 0

\* C14 as stated: every retry round strictly decreases the remaining
\* shortfall of each subtopic for which it dispatched pipelines.
C14_RetryRoundDecreasesShortfall ==
    [][exam_pc = "gather" /\ retry_round >= 1 =>
           \A s \in Subtopics :
               round_tasks[s] > 0 => Shortfall(s)' < Shortfall(s)]_vars

\* C14 amended: every round, retry rounds included, leaves the shortfall of
\* each subtopic for which it dispatched pipelines no larger than before and
\* lowers it by at most the number of pipelines dispatched, so never below
\* zero; the shortfall of a subtopic without pipelines is unchanged.
C14_RoundNeverRaisesShortfall ==
    [][exam_pc = "gather" =>
           \A s \in Subtopics :
               /\ Shortfall(s)' <= Shortfall(s)
               /\ Shortfall(s) - Shortfall(s)' <= round_tasks[s]]_vars

\* The third round asks again for everything one subtopic was asked in the
\* first, while the other subtopic has been partly filled.
C14_Witness ==
    /\ exam_pc = "gather"
    /\ retry_round = 2
    /\ \E s, t \in Subtopics :
           /\ round_tasks[s] = subtopic_questions[s]
           /\ AcceptedCount(t) = 1
           /\ round_tasks[t] = 1

\* Every subtopic has reached its target count.
QuotasReached == \A s \in Subtopics : Shortfall(s) <= 0

\* The generator method has returned its dict to generate_exam.
QuestionsReturned ==
    /\ exam_pc \in { "images", "insert", "create_exam", "add_to_pack", "done" }
    /\ exam_type \in { "thinking_skills", "math" }

\* A round is awaited only within the initial round and max_retry_rounds more,
\* and only while some subtopic is below its target count.
RoundsBounded ==
    exam_pc = "gather" =>
        /\ retry_round <= max_retry_rounds
        /\ ~QuotasReached

\* C15 as stated: a batch runs one initial round plus at most 3 more; a round
\* is run only while some subtopic is below its quota; and once every
\* subtopic has reached its quota the aggregated list has as many questions
\* as the sum of the quotas.
C15_RoundsThenQuotaSum ==
    /\ RoundsBounded
    /\ QuestionsReturned /\ QuotasReached =>
           Len(questions) = SumOver(SubtopicOrder, subtopic_questions)

\* C15 amended: a batch runs one initial round plus at most 3 more; a round is
\* run only while some subtopic is below its quota; and once every subtopic
\* has reached its quota the aggregated list has as many questions as the sum
\* of the positive quotas.
C15_RoundsThenPositiveQuotaSum ==
    /\ RoundsBounded
    /\ QuestionsReturned /\ QuotasReached =>
           Len(questions) = SumOver(SubtopicOrder, PositiveQuotas)

\* The last round allowed is awaited.
C15_WitnessLastRound ==
    /\ exam_pc = "gather"
    /\ retry_round = max_retry_rounds

\* The number of questions the caller asked for.
RequestedQuestions == SumOver(SubtopicOrder, PositiveQuotas)

\* C16: for every exam type generate_exam accepts, the dict it returns has
\* success = true and total_questions at most the number requested, and the
\* REST handler answers 200, whatever failed on the way.
C16_AlwaysSuccess ==
    exam_pc = "done" /\ exam_type \in { "thinking_skills", "math", "reading" } =>
        /\ Get(exam, "success", FALSE)
        /\ HttpStatus(exam) = 200
        /\ Get(exam, "total_questions", 0) <= RequestedQuestions

\* Error e is listed in the dict res: in its steps log, or in an errors list
\* of its own.
Listed(e, res) ==
    \/ \E i \in 1..Len(res.steps) :
           \/ Get(res.steps[i], "error", "") = e
           \/ \E k \in 1..Len(Get(res.steps[i], "errors", << >>)) :
                  res.steps[i].errors[k] = e
    \/ \E k \in 1..Len(Get(res, "errors", << >>)) : res.errors[k] = e

\* C17: in the dict generate_exam returns, the errors of every failed question
\* pipeline are listed, every failed step carries its error, and the batch
\* has success = true.
C17_ErrorsListed ==
    exam_pc = "done" /\ exam_type \in { "thinking_skills", "math" } =>
        /\ \A k \in 1..Len(errors) : Listed(errors[k], exam)
        /\ \A i \in 1..Len(exam.steps) :
               exam.steps[i].status = "failed" => "error" \in DOMAIN exam.steps[i]
        /\ Get(exam, "success", FALSE)

(***************************************************************************)
(* ConceptGuideAgent: handle_task with action select_concept               *)
(*                                                                         *)
(* The agent loads the concept files when it serves its first task and     *)
(* then picks a concept of the subtopic asked.  handle_task,               *)
(* _ensure_loaded and select_concept contain no await that suspends, so a  *)
(* task is served in one step.  random.choice is a choice among the        *)
(* eligible concepts.                                                      *)
(***************************************************************************)

\* The largest number of concepts of a concept file explored.
MaxConcepts == 2

\* ConceptSelection.target_difficulty: 1, 2, or 3
DifficultyLevels == 1..3

\* The difficulty of a request: any integer, of the scale or not.
RequestDifficulties == 1..4

\* AtomicConcept.bloom_levels, as far as select_concept reads it: the default,
\* and a list with comprehension and analysis.
BloomChoices ==
    { { "application" }, { "comprehension", "application", "analysis" } }

\* The difficulty windows [difficulty_min, difficulty_max] of the files.
Windows == { w \in DifficultyLevels \X DifficultyLevels : w[1] <= w[2] }

\* AtomicConcept.id of the k-th concept of the file of subtopic.
ConceptId(subtopic, k) == << subtopic, k >>

\* AtomicConcept, the fields select_concept reads.
AtomicConcept(subtopic, k, window, bloom_levels) ==
    [id |-> ConceptId(subtopic, k), subtopic_name |-> subtopic,
     difficulty_min |-> window[1], difficulty_max |-> window[2],
     bloom_levels |-> bloom_levels]

\* The lists of n concepts a file of subtopic can hold.
ConceptLists(subtopic, n) ==
    { [k \in 1..n |-> AtomicConcept(subtopic, k, f[k][1], f[k][2])] :
          f \in [1..n -> Windows \X BloomChoices] }

\* The directory explored: deduction.json with up to MaxConcepts concepts and
\* spatial_reasoning.json with one.
ConceptFiles ==
    { [deduction |-> concepts,
       spatial_reasoning |->
           << AtomicConcept("spatial_reasoning", 1, << 1, 3 >>, { "application" }) >>] :
          concepts \in UNION { ConceptLists("deduction", n) : n \in 0..MaxConcepts } }

\* The subtopic of a request: two with a file, one without.
RequestSubtopics == { "deduction", "spatial_reasoning", "inference" }

\* The ids a request can exclude.
AllConceptIds ==
    { ConceptId("deduction", k) : k \in 1..MaxConcepts }
        \cup { ConceptId("spatial_reasoning", 1) }

\* The ids of the concepts of a list.
Ids(concepts) == { concepts[k].id : k \in 1..Len(concepts) }

InWindow(c, difficulty) ==
    c.difficulty_min <= difficulty /\ difficulty <= c.difficulty_max

Eligible_IgnoreExclusions(concepts, difficulty, exclude_ids) ==
    { k \in 1..Len(concepts) : InWindow(concepts[k], difficulty) }

\* The first eligible list of select_concept, as positions of graph.concepts.
Eligible(concepts, difficulty, exclude_ids) ==
    { k \in 1..Len(concepts) :
          /\ InWindow(concepts[k], difficulty)
          /\ concepts[k].id \notin exclude_ids }

Fallback_None(concepts, exclude_ids) == { }

\* The fallback list: any concept not excluded.
Fallback(concepts, exclude_ids) ==
    { k \in 1..Len(concepts) : concepts[k].id \notin exclude_ids }

TargetBloom_IgnoreAvailability(selected, difficulty) ==
    IF difficulty >= 3 THEN "analysis"
    ELSE IF difficulty <= 1 THEN "comprehension" ELSE "application"

\* The bloom level select_concept picks.
TargetBloom(selected, difficulty) ==
    IF difficulty >= 3 /\ "analysis" \in selected.bloom_levels THEN "analysis"
    ELSE IF difficulty <= 1 /\ "comprehension" \in selected.bloom_levels
         THEN "comprehension"
         ELSE "application"

\* ConceptSelection, the fields modelled.
ConceptSelection(selected, difficulty) ==
    [concept |-> selected, target_difficulty |-> difficulty,
     target_bloom_level |-> TargetBloom(selected, difficulty)]

\* What select_concept can return on the graphs loaded.
select_concept(graphs, subtopic, difficulty, exclude_ids) ==
    IF subtopic \notin DOMAIN graphs
    THEN { [success |-> FALSE, error |-> << "Unknown subtopic: ", subtopic >>,
            available |-> DOMAIN graphs] }
    ELSE LET concepts == graphs[subtopic]
             first    == Eligible(concepts, difficulty, exclude_ids)
             eligible == IF first = { } THEN Fallback(concepts, exclude_ids)
                         ELSE first
         IN IF eligible = { }
            THEN { [success |-> FALSE, error |-> "No eligible concepts available"] }
            ELSE { [success |-> TRUE,
                    selection |-> ConceptSelection(concepts[k], difficulty)] :
                       k \in eligible }

NeedsLoad_Always == TRUE

\* _ensure_loaded goes on to read the files.
NeedsLoad == ~_loaded

LoadedGraphs_FirstFile ==
    IF NeedsLoad
    THEN [key \in DOMAIN concept_files \cap { "deduction" } |-> concept_files[key]]
    ELSE _concept_graphs

\* _ensure_loaded: the graphs after it.
LoadedGraphs == IF NeedsLoad THEN concept_files ELSE _concept_graphs

InitRegistry ==
    /\ concept_files \in ConceptFiles
    /\ _concept_graphs = << >>
    /\ _loaded = FALSE
    /\ guide_task = None
    /\ guide_response = None
    /\ executing = << >>
    /\ loads = 0
    /\ max_revisions = 0
    /\ NoFrame
    /\ NoBatch
    /\ NoExam
    /\ NoServices

\* handle_task serves the first task, a select_concept request.
HandleTask ==
    /\ guide_task = None
    /\ \E subtopic \in RequestSubtopics, difficulty \in RequestDifficulties,
          exclude_ids \in SUBSET AllConceptIds :
           /\ guide_task' = [action |-> "select_concept", subtopic |-> subtopic,
                             difficulty |-> difficulty, exclude_ids |-> exclude_ids]
           /\ _concept_graphs' = LoadedGraphs
           /\ _loaded' = TRUE
           /\ loads' = IF NeedsLoad THEN loads + 1 ELSE loads
           /\ guide_response' \in
                  select_concept(LoadedGraphs, subtopic, difficulty, exclude_ids)
    /\ UNCHANGED << concept_files, executing, pipeline_vars, batch_vars, exam_vars,
                    service_vars >>

NextRegistry == HandleTask

SpecRegistry == InitRegistry /\ [][NextRegistry]_vars

(***************************************************************************)
(* Properties of select_concept                                            *)
(***************************************************************************)

\* handle_task has answered a select_concept request.
Selected == guide_task # None

\* The concepts of the subtopic asked; none when it has no file.
AskedConcepts == Get(_concept_graphs, guide_task.subtopic, << >>)

\* The concepts of the subtopic asked that are not excluded.
NotExcluded ==
    { k \in 1..Len(AskedConcepts) :
          AskedConcepts[k].id \notin guide_task.exclude_ids }

\* Those of them whose window contains the difficulty asked.
NotExcludedInWindow ==
    { k \in NotExcluded : InWindow(AskedConcepts[k], guide_task.difficulty) }

\* The response selects the concept at a position of ks of the subtopic asked.
SelectsOneOf(ks) ==
    /\ guide_response.success
    /\ \E k \in ks : guide_response.selection.concept = AskedConcepts[k]

\* C18: select_concept never returns a concept whose id is in exclude_ids;
\* and when the subtopic has a concept that is not excluded and whose
\* difficulty window contains the difficulty asked, the concept returned is
\* such a concept of that subtopic.
C18_NeverExcluded ==
    Selected =>
        /\ guide_response.success =>
               guide_response.selection.concept.id \notin guide_task.exclude_ids
        /\ NotExcludedInWindow # { } => SelectsOneOf(NotExcludedInWindow)

\* A request that excludes a concept in the window while another concept in
\* the window is left, which is the one selected.
C18_Witness ==
    /\ Selected
    /\ \E k \in 1..Len(AskedConcepts) :
           /\ AskedConcepts[k].id \in guide_task.exclude_ids
           /\ InWindow(AskedConcepts[k], guide_task.difficulty)
    /\ NotExcludedInWindow # { }
    /\ SelectsOneOf(NotExcludedInWindow)

\* C19: select_concept with exclude_ids holding every concept id of the
\* subtopic's catalog returns {success: false, error: "no_eligible"}.
C19_AllExcluded ==
    /\ Selected
    /\ guide_task.subtopic \in DOMAIN _concept_graphs
    /\ Ids(AskedConcepts) \subseteq guide_task.exclude_ids
    => guide_response = [success |-> FALSE, error |-> "no_eligible"]

\* C20: when no concept of the subtopic that is not excluded has a window
\* containing the difficulty asked but some concept is not excluded,
\* select_concept succeeds with a concept of the subtopic that is not
\* excluded, and target_difficulty is the difficulty asked.
C20_DifficultyFallback ==
    Selected /\ NotExcludedInWindow = { } /\ NotExcluded # { } =>
        /\ SelectsOneOf(NotExcluded)
        /\ guide_response.selection.target_difficulty = guide_task.difficulty

\* The only concept of the subtopic has window [1,2] and is selected for
\* difficulty 3.
C20_Witness ==
    /\ Selected
    /\ guide_task.subtopic = "deduction"
    /\ guide_task.difficulty = 3
    /\ guide_task.exclude_ids = { }
    /\ Len(AskedConcepts) = 1
    /\ AskedConcepts[1].difficulty_min = 1
    /\ AskedConcepts[1].difficulty_max = 2
    /\ SelectsOneOf({ 1 })
    /\ guide_response.selection.target_difficulty = 3

\* The bloom level of the selection returned, and what it was derived from.
ReturnedBloom == guide_response.selection.target_bloom_level

AvailableBlooms == guide_response.selection.concept.bloom_levels

\* C21: the target bloom level select_concept returns is analysis if the
\* difficulty asked is at least 3 and the selected concept has analysis, else
\* comprehension if the difficulty is at most 1 and the concept has
\* comprehension, else application.
C21_BloomDerivation ==
    Selected /\ guide_response.success =>
        LET d == guide_task.difficulty
        IN /\ d >= 3 /\ "analysis" \in AvailableBlooms
                  => ReturnedBloom = "analysis"
           /\ ~(d >= 3 /\ "analysis" \in AvailableBlooms)
                  /\ d <= 1 /\ "comprehension" \in AvailableBlooms
                  => ReturnedBloom = "comprehension"
           /\ ~(d >= 3 /\ "analysis" \in AvailableBlooms)
                  /\ ~(d <= 1 /\ "comprehension" \in AvailableBlooms)
                  => ReturnedBloom = "application"

\* Difficulty 3 on a concept without analysis gives application.
C21_Witness ==
    /\ Selected
    /\ guide_response.success
    /\ guide_task.difficulty = 3
    /\ "analysis" \notin AvailableBlooms
    /\ ReturnedBloom = "application"

(***************************************************************************)
(* ConceptGuideAgent under concurrent requests                             *)
(*                                                                         *)
(* The agent runs in one event loop (run_agent_server).  execute suspends  *)
(* at its two enqueue_event awaits; between them handle_task runs without  *)
(* suspending: _ensure_loaded, get_concepts, select_concept and            *)
(* list_subtopics contain no await of their own.  So a task arrives, and   *)
(* later its handler runs in one step, in any order among the tasks        *)
(* that have arrived.                                                      *)
(***************************************************************************)

\* The largest number of tasks sent to the agent.
MaxRequests == 2

\* get_concepts, the fields modelled; the concepts of the answer for all
\* subtopics as a set.
get_concepts(graphs, subtopic) ==
    IF subtopic # ""
    THEN IF subtopic \notin DOMAIN graphs
         THEN [success |-> FALSE, error |-> << "Unknown subtopic: ", subtopic >>,
               available |-> DOMAIN graphs]
         ELSE [success |-> TRUE, subtopic |-> subtopic,
               concept_count |-> Len(graphs[subtopic]),
               concepts |-> graphs[subtopic]]
    ELSE LET all_concepts ==
                 UNION { { [subtopic_key |-> key, concept |-> graphs[key][k]] :
                               k \in 1..Len(graphs[key]) } : key \in DOMAIN graphs }
         IN [success |-> TRUE, total_concepts |-> Cardinality(all_concepts),
             concepts |-> all_concepts]

\* list_subtopics, the fields modelled.
list_subtopics(graphs) ==
    [success |-> TRUE,
     subtopics |-> { [key |-> key, concept_count |-> Len(graphs[key])] :
                         key \in DOMAIN graphs },
     total_subtopics |-> Cardinality(DOMAIN graphs)]

\* The tasks sent: each action of the agent.
RegistryTasks ==
    { [action |-> "list_subtopics"],
      [action |-> "get_concepts", subtopic |-> ""],
      [action |-> "get_concepts", subtopic |-> "spatial_reasoning"],
      [action |-> "select_concept", subtopic |-> "deduction", difficulty |-> 2,
       exclude_ids |-> { }] }

\* What handle_task can return for data on the graphs loaded.
DispatchTask(graphs, data) ==
    IF data.action = "get_concepts" THEN { get_concepts(graphs, data.subtopic) }
    ELSE IF data.action = "select_concept"
    THEN select_concept(graphs, data.subtopic, data.difficulty, data.exclude_ids)
    ELSE { list_subtopics(graphs) }

\* The catalogs explored: every concept with the default window and levels.
DefaultCatalogs ==
    { files \in ConceptFiles :
          \A k \in 1..Len(files.deduction) :
              /\ files.deduction[k].difficulty_min = 1
              /\ files.deduction[k].difficulty_max = 3
              /\ files.deduction[k].bloom_levels = { "application" } }

InitConcurrent ==
    /\ concept_files \in DefaultCatalogs
    /\ _concept_graphs = << >>
    /\ _loaded = FALSE
    /\ guide_task = None
    /\ guide_response = None
    /\ executing = << >>
    /\ loads = 0
    /\ max_revisions = 0
    /\ NoFrame
    /\ NoBatch
    /\ NoExam
    /\ NoServices

\* execute up to its first await: a task arrives and is working.  before
\* records whether the load was still to be done.
Submit ==
    /\ Len(executing) < MaxRequests
    /\ \E data \in RegistryTasks :
           executing' = Append(executing, [state |-> "working", task_data |-> data,
                                           before |-> NeedsLoad, result |-> None])
    /\ UNCHANGED << concept_files, _concept_graphs, _loaded, guide_task,
                    guide_response, loads, pipeline_vars, batch_vars, exam_vars,
                    service_vars >>

\* execute from its first await to its second: the handler of task i runs.
Execute(i) ==
    /\ executing[i].state = "working"
    /\ _concept_graphs' = LoadedGraphs
    /\ _loaded' = TRUE
    /\ loads' = IF NeedsLoad THEN loads + 1 ELSE loads
    /\ \E r \in DispatchTask(LoadedGraphs, executing[i].task_data) :
           executing' = [executing EXCEPT ![i].state = "completed", ![i].result = r]
    /\ UNCHANGED << concept_files, guide_task, guide_response,
                    pipeline_vars, batch_vars, exam_vars,
                    service_vars >>

NextConcurrent ==
    \/ Submit
    \/ \E i \in 1..Len(executing) : Execute(i)

SpecConcurrent == InitConcurrent /\ [][NextConcurrent]_vars

\* C22: whatever the order in which concurrent first requests are served, the
\* files are read at most once.
C22_LoadAtMostOnce == loads <= 1

\* Two tasks arrived before the load; both have been served, the later one
\* first, and the files were read once.
C22_Witness ==
    /\ Len(executing) >= 2
    /\ executing[1].before /\ executing[2].before
    /\ executing[1].state = "working"
    /\ executing[2].state = "completed"
    /\ loads = 1

\* The catalog a completed load yields: every file of the directory.
FullCatalog == concept_files

\* C23: every answer of select_concept, get_concepts and list_subtopics is
\* computed on the fully loaded catalog, a task that arrived before the load
\* included, and the catalog does not change once the load has completed.
C23_NoPartialCatalog ==
    /\ [](\A i \in 1..Len(executing) :
              executing[i].state = "completed" =>
                  /\ _loaded
                  /\ _concept_graphs = FullCatalog
                  /\ executing[i].result \in
                         DispatchTask(FullCatalog, executing[i].task_data))
    /\ [][_loaded => _concept_graphs' = _concept_graphs]_vars

\* A task that arrived before the load is answered from the whole catalog
\* after another task has made the load.
C23_Witness ==
    /\ Len(executing) >= 2
    /\ executing[2].before
    /\ executing[1].state = "completed"
    /\ executing[2].state = "completed"
    /\ executing[2].task_data.action = "list_subtopics"
    /\ executing[2].result.total_subtopics = 2

(***************************************************************************)
(* QuestionGeneratorAgent                                                  *)
(*                                                                         *)
(* One caller sends one task after another to the agent, as the pipeline   *)
(* does: generate_question first, then revise_question with the blueprint  *)
(* and question returned last.  The LLM is the environment: generate_json  *)
(* raises, or returns any JSON object, with a choices list of any length.  *)
(***************************************************************************)

\* The longest choices list the LLM returns.
MaxLlmChoices == 6

Topics == { "thinking_skills", "math" }

\* What await self.generate_json(prompt) can do: raise, or return an empty
\* object, an object without choices, or one with i choices, the i-th being
\* {"text": ...} without id.
LlmOutcomes ==
    { [kind |-> "raise"], [kind |-> "json", value |-> [t \in { } |-> 0]],
      [kind |-> "json", value |-> [question_text |-> "q"]] }
        \cup { [kind |-> "json",
                value |-> [question_text |-> "q",
                           choices |-> [i \in 1..n |-> [text |-> << "text", i >>]]]] :
                   n \in 0..MaxLlmChoices }

\* The keys of config.topic_uuids _parse_blueprint reads.
TopicUuid(topic) ==
    IF topic = "math" THEN topic_uuids.mathematics ELSE topic_uuids.thinking_skills

Min(a, b) == IF a <= b THEN a ELSE b

\* _parse_blueprint, the fields modelled.  distractors is their number.
_parse_blueprint(data, concept_data, target_difficulty, topic) ==
    LET num_distractors == IF topic = "math" THEN 4 ELSE 3
        llm_choices     == Get(data, "choices", << >>)
        parsed          == IF Len(llm_choices) = 0 THEN 0
                           ELSE Min(Len(llm_choices) - 1, num_distractors)
    IN [concept_id |-> Get(concept_data, "id", "unknown"),
        topic_id |-> TopicUuid(topic),
        question_type |-> "mcq",
        difficulty_target |-> target_difficulty,
        correct_answer_value |-> IF Len(llm_choices) > 0
                                 THEN Get(llm_choices[1], "text", None) ELSE None,
        distractors |-> IF parsed < num_distractors THEN num_distractors ELSE parsed,
        revision_count |-> 0]

\* _parse_question, the fields modelled.  The id of a choice is str of the
\* number held here.
_parse_question(data, blueprint, topic) ==
    LET num_choices == IF topic = "math" THEN 5 ELSE 4
        llm_choices == Get(data, "choices", << >>)
        choices     == [i \in 1..Len(llm_choices) |->
                           [id |-> Get(llm_choices[i], "id", i),
                            text |-> Get(llm_choices[i], "text", ""),
                            is_correct |-> (i = 1)]]
        padding     == [k \in 1..(num_choices - Len(choices)) |->
                           [id |-> Len(choices) + k,
                            text |-> << "Option ", Len(choices) + k >>,
                            is_correct |-> FALSE]]
    IN [question |-> Get(data, "question_text", ""),
        choices |-> choices \o padding,
        type |-> "multiple-choice",
        topic_id |-> blueprint.topic_id]

\* if not result_data
Falsy(data) == DOMAIN data = { }

\* _detect_topic
_detect_topic(concept_data) ==
    IF Get(concept_data, "topic_name", "") = "Mathematics" THEN "math"
    ELSE "thinking_skills"

\* QuestionGeneratorAgent.generate_question, the LLM doing llm.
generate_question(selection_data, llm) ==
    IF llm.kind = "raise" THEN Failure("JSONDecodeError")
    ELSE IF Falsy(llm.value) THEN Failure("Failed to generate question")
    ELSE LET concept_data == Get(selection_data, "concept", << >>)
             topic        == _detect_topic(concept_data)
             blueprint    == _parse_blueprint(llm.value, concept_data,
                                              Get(selection_data, "target_difficulty", 3),
                                              topic)
         IN [success |-> TRUE, blueprint |-> blueprint,
             question |-> _parse_question(llm.value, blueprint, topic)]

revise_question_KeepCount(question, blueprint, issues, suggestions, llm) ==
    IF llm.kind = "raise" THEN Failure("JSONDecodeError")
    ELSE IF Falsy(llm.value) THEN Failure("Failed to revise question")
    ELSE LET concept_data == [id |-> Get(blueprint, "concept_id", None)]
             parsed  == _parse_blueprint(llm.value, concept_data,
                                         Get(blueprint, "difficulty_target", 3),
                                         "thinking_skills")
             revised == [parsed EXCEPT !.revision_count =
                                           Get(blueprint, "revision_count", 0)]
         IN [success |-> TRUE, blueprint |-> revised,
             question |-> _parse_question(llm.value, revised, "thinking_skills"),
             revision_count |-> revised.revision_count]

\* QuestionGeneratorAgent.revise_question, the LLM doing llm.  Both parsers
\* are called without topic, which defaults to "thinking_skills".
revise_question(question, blueprint, issues, suggestions, llm) ==
    IF llm.kind = "raise" THEN Failure("JSONDecodeError")
    ELSE IF Falsy(llm.value) THEN Failure("Failed to revise question")
    ELSE LET concept_data == [id |-> Get(blueprint, "concept_id", None)]
             parsed  == _parse_blueprint(llm.value, concept_data,
                                         Get(blueprint, "difficulty_target", 3),
                                         "thinking_skills")
             revised == [parsed EXCEPT !.revision_count =
                                           Get(blueprint, "revision_count", 0) + 1]
         IN [success |-> TRUE, blueprint |-> revised,
             question |-> _parse_question(llm.value, revised, "thinking_skills"),
             revision_count |-> revised.revision_count]

\* QuestionGeneratorAgent.handle_task on the text of parts[0], None when the
\* message has no parts.
GeneratorHandleTask(task_text, llm) ==
    IF task_text = None THEN [error |-> "No task data provided"]
    ELSE IF JsonLoads(task_text) = None
    THEN [error |-> "Invalid JSON in task message"]
    ELSE LET task_data == JsonLoads(task_text)
             action    == Get(task_data, "action", "")
         IN IF action = "generate_question"
            THEN generate_question(Get(task_data, "selection", << >>), llm)
            ELSE IF action = "revise_question"
            THEN revise_question(Get(task_data, "question", << >>),
                                 Get(task_data, "blueprint", << >>),
                                 Get(task_data, "issues", << >>),
                                 Get(task_data, "suggestions", << >>), llm)
            ELSE [error |-> << "Unknown action: ", action >>]

\* The selection sent for a concept of topic.
SelectionOf(topic) ==
    [concept |-> [id |-> "c1",
                  topic_name |-> IF topic = "math" THEN "Mathematics"
                                 ELSE "Thinking Skills"],
     target_difficulty |-> 2]

\* A blueprint of a caller other than the pipeline: it has no revision_count.
ForeignBlueprint == [concept_id |-> "c1", difficulty_target |-> 2]

InitGenerator ==
    /\ gen_topic \in Topics
    /\ gen_blueprint \in { None, ForeignBlueprint }
    /\ gen_question = None
    /\ gen_reply = None
    /\ gen_revisions = 0
    /\ gen_calls = 0
    /\ max_revisions = 0
    /\ NoFrame
    /\ NoBatch
    /\ NoExam
    /\ NoRegistry
    /\ NoJudge
    /\ host_tasks = << >>

\* The caller keeps the blueprint and question of a successful reply.
Served(reply, revised) ==
    /\ gen_reply' = reply
    /\ gen_calls' = gen_calls + 1
    /\ IF Get(reply, "success", FALSE)
       THEN /\ gen_blueprint' = reply.blueprint
            /\ gen_question' = reply.question
            /\ gen_revisions' = IF revised THEN gen_revisions + 1 ELSE gen_revisions
       ELSE UNCHANGED << gen_blueprint, gen_question, gen_revisions >>
    /\ UNCHANGED << gen_topic, quality_vars, host_vars, pipeline_vars, batch_vars,
                    exam_vars, registry_vars >>

\* A generate_question task is served.
GenerateTask ==
    /\ gen_blueprint = None
    /\ gen_calls = 0
    /\ \E llm \in LlmOutcomes :
           Served(GeneratorHandleTask(
                      JsonDumps([action |-> "generate_question",
                                 selection |-> SelectionOf(gen_topic)]), llm), FALSE)

\* A revise_question task is served, with any issues list.
ReviseTask ==
    /\ gen_blueprint # None
    /\ gen_calls <= MaxRevisionsBound
    /\ \E llm \in LlmOutcomes, issues \in { << >>, << "ambiguous stem" >> } :
           Served(GeneratorHandleTask(
                      JsonDumps([action |-> "revise_question",
                                 question |-> gen_question,
                                 blueprint |-> gen_blueprint,
                                 issues |-> issues, suggestions |-> << >>]), llm), TRUE)

\* A task the agent cannot read is served: no parts, text that is not JSON,
\* or an action it does not know.
UnreadableTask ==
    /\ gen_calls <= MaxRevisionsBound
    /\ \E task_text \in { None, PyStr([action |-> "generate_question"]),
                          JsonDumps([action |-> "explain_question"]) } :
           Served(GeneratorHandleTask(task_text, [kind |-> "raise"]), FALSE)

NextGenerator == GenerateTask \/ ReviseTask \/ UnreadableTask

SpecGenerator == InitGenerator /\ [][NextGenerator]_vars

(***************************************************************************)
(* Properties of the Question Generator                                    *)
(***************************************************************************)

\* The last reply carries a question.
QuestionReturned == gen_reply # None /\ Get(gen_reply, "success", FALSE)

ReturnedChoices == gen_reply.question.choices

CorrectChoices == { i \in 1..Len(ReturnedChoices) : ReturnedChoices[i].is_correct }

\* C24: every question the Generator returns, from generate_question or
\* revise_question, has exactly one choice flagged correct, and it is the
\* first of choices, whatever choices list the LLM returned, the empty one
\* included.
C24_FirstChoiceCorrect ==
    QuestionReturned => CorrectChoices = { 1 }

\* C25: every question the Generator returns, from generate_question or
\* revise_question, has exactly 4 choices for a thinking-skills question and
\* exactly 5 for a math question, whatever number the LLM returned, and the
\* first choice is the correct one.
C25_ChoiceCount ==
    QuestionReturned =>
        /\ Len(ReturnedChoices) = IF gen_topic = "math" THEN 5 ELSE 4
        /\ Len(ReturnedChoices) > 0 /\ ReturnedChoices[1].is_correct

\* C26: a successful revise_question returns a blueprint whose revision_count
\* is that of the blueprint sent plus 1, 0 + 1 when it has none, for any
\* issues list; so after k successful revisions the blueprint the caller holds
\* has revision_count k.
C26_RevisionCount ==
    /\ [][gen_revisions' = gen_revisions + 1 =>
              /\ gen_blueprint'.revision_count
                     = Get(gen_blueprint, "revision_count", 0) + 1
              /\ gen_reply'.revision_count = gen_blueprint'.revision_count]_vars
    /\ [](gen_blueprint # None /\ gen_blueprint # ForeignBlueprint =>
              gen_blueprint.revision_count = gen_revisions)

\* Two revisions have succeeded in a row after a generation.
C26_Witness ==
    /\ gen_calls = 3
    /\ gen_revisions = 2
    /\ gen_blueprint.revision_count = 2

\* C27: every payload handle_task returns has a boolean success field: a
\* failure is {success: false, error}, every other payload has success true
\* and its blueprint and question; so a task whose text is not JSON is
\* answered {success: false, error: "Invalid JSON in task message"}.
C27_SuccessFieldAlways ==
    gen_reply # None =>
        /\ "success" \in DOMAIN gen_reply
        /\ gen_reply.success \in BOOLEAN
        /\ ~gen_reply.success => "error" \in DOMAIN gen_reply
        /\ gen_reply.success => { "blueprint", "question" } \subseteq DOMAIN gen_reply

(***************************************************************************)
(* The envelope: what is written into parts[0].text and read back          *)
(***************************************************************************)

\* The text BaseAgentExecutor.execute puts into the response message for the
\* dict the handler returned: TextPart(text=str(result)).
ExecuteText(handler_result) == PyStr(handler_result)

\* The text the controller's helpers put into a request: json.dumps of the
\* task dict.
RequestText(task_data) == JsonDumps(task_data)

\* The task dicts the caller of the Question Generator sends in this state.
RequestsToSend ==
    { [action |-> "generate_question", selection |-> SelectionOf(gen_topic)],
      [action |-> "revise_question", question |-> gen_question,
       blueprint |-> gen_blueprint, issues |-> << "ambiguous stem" >>,
       suggestions |-> << >>] }

\* C28: the inner payload survives the envelope in both directions: the task
\* dict a controller helper encodes is what the service's handle_task
\* decodes, and the dict a handler returns is what the controller's
\* _parse_response decodes from the response execute wrote.
C28_EnvelopeRoundTrip ==
    /\ \A task_data \in RequestsToSend :
           JsonLoads(RequestText(task_data)) = task_data
    /\ gen_reply # None =>
           _parse_response(send_task([kind |-> "result",
                                      text |-> ExecuteText(gen_reply)])) = gen_reply

(***************************************************************************)
(* QualityCheckerAgent.check_quality                                       *)
(*                                                                         *)
(* The LLM is the environment: it answers the prompt with any judgment.    *)
(* Scores are held in tenths: clarity_score 0.5 is 5.                      *)
(***************************************************************************)

\* The longest vulnerabilities list the LLM returns.
MaxVulnerabilities == 2

\* One entry of vulnerabilities.
Vulnerabilities ==
    { [severity |-> "critical", type |-> "ambiguity"],
      [severity |-> "major", type |-> "shortcut"],
      [severity |-> "minor", type |-> "too_easy"],
      [severity |-> "minor", type |-> "weak_distractor"] }

VulnerabilityLists ==
    UNION { [1..n -> Vulnerabilities] : n \in 0..MaxVulnerabilities }

\* estimated_year6_success_rate: a string such as "30%" or "50-60%", of which
\* first is the leading number, or a JSON number.
SuccessRates ==
    { [str |-> TRUE, first |-> 30], [str |-> TRUE, first |-> 50],
      [str |-> FALSE, first |-> 60] }

\* The part of the judgment that tells whether the question was solved as
\* marked, by question type.
SolvedParts ==
    { [question_type |-> "multiple-choice", data |-> [solved_answer_id |-> id]] :
          id \in { 1, 2 } }
        \cup { [question_type |-> "drag-and-drop", data |-> [order_is_correct |-> b]] :
                   b \in BOOLEAN }

\* difficulty_assessment: an object, or JSON null.
DifficultyAssessments ==
    { [is_too_easy |-> e, estimated_year6_success_rate |-> r] :
          e \in BOOLEAN, r \in SuccessRates } \cup { None }

\* The other fields of the judgment read by _determine_status.
JudgedParts ==
    { [difficulty_assessment |-> a,
       num_reasoning_steps |-> n, vulnerabilities |-> v, clarity_score |-> c,
       vulnerability_score |-> w] :
          a \in DifficultyAssessments, n \in { 2, 3 },
          v \in VulnerabilityLists, c \in { 4, 6, 8 }, w \in { 5, 7 } }

\* JudgmentStatus
JudgmentStatus == { "accepted", "rejected", "needs_revision" }

\* What _determine_status gives when it raises instead of returning: None has
\* no attribute get.
AttributeError == "AttributeError"

\* verdict, when the LLM gives one.
Verdicts == { << >>, [verdict |-> "reject"], [verdict |-> "needs_revision"] }

\* The first vulnerability of the list on which the loop returns: 0 for none.
RECURSIVE FirstDecisive(_, _)
FirstDecisive(vulns, k) ==
    IF k > Len(vulns) THEN 0
    ELSE IF vulns[k].severity \in { "critical", "major" } \/ vulns[k].type = "too_easy"
         THEN k
         ELSE FirstDecisive(vulns, k + 1)

\* QualityCheckerAgent._determine_status
_determine_status(result_data, question_type) ==
    LET answer_wrong ==
            IF question_type = "drag-and-drop"
            THEN ~Get(result_data, "order_is_correct", FALSE)
            ELSE IF question_type = "cloze"
            THEN ~Get(result_data, "blanks_correct", FALSE)
            ELSE \/ "solved_answer_id" \notin DOMAIN result_data
                 \/ result_data.solved_answer_id # 1
        verdict == Get(result_data, "verdict", "accept")
        difficulty_assessment == Get(result_data, "difficulty_assessment", << >>)
        success_rate == Get(difficulty_assessment, "estimated_year6_success_rate",
                            [str |-> TRUE, first |-> 50])
        vulns == Get(result_data, "vulnerabilities", << >>)
        k     == FirstDecisive(vulns, 1)
    IN IF answer_wrong THEN "rejected"
       ELSE IF verdict = "reject" THEN "rejected"
       ELSE IF verdict = "needs_revision" THEN "needs_revision"
       ELSE IF difficulty_assessment = None THEN AttributeError
       ELSE IF Get(difficulty_assessment, "is_too_easy", FALSE) THEN "rejected"
       ELSE IF success_rate.str /\ success_rate.first > 40 THEN "needs_revision"
       ELSE IF Get(result_data, "num_reasoning_steps", 0) < 3 THEN "needs_revision"
       ELSE IF k > 0
       THEN IF vulns[k].severity = "critical" THEN "rejected" ELSE "needs_revision"
       ELSE IF Get(result_data, "clarity_score", 0) < 5 THEN "rejected"
       ELSE IF Get(result_data, "clarity_score", 0) < 7 THEN "needs_revision"
       ELSE IF Get(result_data, "vulnerability_score", 0) > 6 THEN "needs_revision"
       ELSE "accepted"

check_quality_AcceptedUnlessRejected(question, llm) ==
    IF llm.kind = "raise" THEN Failure("JSONDecodeError")
    ELSE IF Falsy(llm.value) THEN Failure("Failed to check quality")
    ELSE LET question_type == Get(question, "type", "multiple-choice")
             status == _determine_status(llm.value, question_type)
         IN IF status \notin JudgmentStatus THEN Failure(status)
            ELSE
            [success |-> TRUE, question_type |-> question_type,
             status |-> status,
             accepted |-> (status # "rejected"),
             issues |-> Get(llm.value, "issues", << >>),
             suggestions |-> Get(llm.value, "revision_suggestions", << >>)]

\* QualityCheckerAgent.check_quality, the fields modelled, the LLM doing llm.
check_quality(question, llm) ==
    IF llm.kind = "raise" THEN Failure("JSONDecodeError")
    ELSE IF Falsy(llm.value) THEN Failure("Failed to check quality")
    ELSE LET question_type == Get(question, "type", "multiple-choice")
             status == _determine_status(llm.value, question_type)
         IN IF status \notin JudgmentStatus THEN Failure(status)
            ELSE
            [success |-> TRUE, question_type |-> question_type,
             status |-> status,
             accepted |-> (status = "accepted"),
             issues |-> Get(llm.value, "issues", << >>),
             suggestions |-> Get(llm.value, "revision_suggestions", << >>)]

\* The question sent and the judgment of the LLM, or its failure.
JudgeInputs ==
    { [question_type |-> s.question_type,
       llm |-> [kind |-> "json", value |-> s.data @@ j @@ v]] :
          s \in SolvedParts, j \in JudgedParts, v \in Verdicts }
        \cup { [question_type |-> "multiple-choice", llm |-> l] :
                   l \in { [kind |-> "raise"],
                           [kind |-> "json", value |-> << >>] } }

InitJudge ==
    /\ judge_input \in JudgeInputs
    /\ judge_reply = None
    /\ max_revisions = 0
    /\ NoFrame
    /\ NoBatch
    /\ NoExam
    /\ NoRegistry
    /\ NoGenerator
    /\ host_tasks = << >>

\* check_quality returns.
CheckQualityReturn ==
    /\ judge_reply = None
    /\ judge_reply' = check_quality([type |-> judge_input.question_type],
                                    judge_input.llm)
    /\ UNCHANGED << judge_input, generator_vars, host_vars, pipeline_vars,
                    batch_vars, exam_vars, registry_vars >>

NextJudge == CheckQualityReturn

SpecJudge == InitJudge /\ [][NextJudge]_vars

(***************************************************************************)
(* Properties of check_quality                                             *)
(***************************************************************************)

\* check_quality has returned a judgment.
Judgment == judge_reply # None /\ judge_reply.success

\* The judgment of the LLM the reply was derived from.
JudgedData == judge_input.llm.value

\* The status derivation as listed, the first rule that applies deciding:
\* 1 solved answer differs from the marked one; 2 too easy, or success rate
\* above 40%; 3 a critical vulnerability, a major one, one of type too_easy;
\* 4 fewer than 3 reasoning steps; 5 clarity; 6 vulnerability score; 7 accepted.
StatusByRules(d) ==
    LET vulns == d.vulnerabilities
        rate  == d.difficulty_assessment.estimated_year6_success_rate
    IN IF d.solved_answer_id # 1 THEN "rejected"
       ELSE IF d.difficulty_assessment.is_too_easy THEN "rejected"
       ELSE IF rate.first > 40 THEN "needs_revision"
       ELSE IF \E k \in 1..Len(vulns) : vulns[k].severity = "critical" THEN "rejected"
       ELSE IF \E k \in 1..Len(vulns) :
                   vulns[k].severity = "major" \/ vulns[k].type = "too_easy"
            THEN "needs_revision"
       ELSE IF d.num_reasoning_steps < 3 THEN "needs_revision"
       ELSE IF d.clarity_score < 5 THEN "rejected"
       ELSE IF d.clarity_score < 7 THEN "needs_revision"
       ELSE IF d.vulnerability_score > 6 THEN "needs_revision"
       ELSE "accepted"

\* C29: the status check_quality returns for an MCQ is the one rules 1 to 7
\* give when evaluated in the listed order, for every combination of solved
\* answer, too-easy flag, success rate, vulnerabilities, reasoning steps,
\* clarity score and vulnerability score.
C29_StatusByListedRules ==
    /\ Judgment
    /\ judge_input.question_type = "multiple-choice"
    /\ JudgedData.difficulty_assessment # None
    =>
        judge_reply.status = StatusByRules(JudgedData)

\* A question solved as marked, judged not too easy with a 30% success rate,
\* two reasoning steps and a critical vulnerability: the listed order reaches
\* rule 3 first and rejects, check_quality asks for a revision.
RevisionAskedDespiteCritical ==
    /\ Judgment
    /\ judge_input.question_type = "multiple-choice"
    /\ "verdict" \notin DOMAIN JudgedData
    /\ JudgedData.solved_answer_id = 1
    /\ ~JudgedData.difficulty_assessment.is_too_easy
    /\ JudgedData.difficulty_assessment.estimated_year6_success_rate
           = [str |-> TRUE, first |-> 30]
    /\ JudgedData.num_reasoning_steps = 2
    /\ JudgedData.vulnerabilities = << [severity |-> "critical", type |-> "ambiguity"] >>
    /\ StatusByRules(JudgedData) = "rejected"
    /\ judge_reply.status = "needs_revision"

\* C30: in every successful check_quality response, accepted is true exactly
\* when status is accepted.
C30_AcceptedIsStatus ==
    Judgment => (judge_reply.accepted <=> judge_reply.status = "accepted")

\* A judgment that passes every rule is accepted.
C30_WitnessAccepted ==
    /\ Judgment
    /\ judge_reply.status = "accepted"
    /\ judge_reply.accepted

\* check_quality had a judgment of the LLM to derive a status from.
StatusDerived ==
    /\ judge_reply # None
    /\ judge_input.llm.kind = "json"
    /\ ~Falsy(judge_input.llm.value)

\* C31: the status derivation is total: for every output of the assessor it
\* returns one of accepted, needs_revision, rejected and never fails.
C31_StatusTotal ==
    StatusDerived => _determine_status(JudgedData, judge_input.question_type)
                  \in JudgmentStatus

(***************************************************************************)
(* Service host: BaseAgentExecutor                                         *)
(*                                                                         *)
(* execute runs as one coroutine per request; it is suspended while it     *)
(* awaits the handler, and there the coroutines of other requests and a    *)
(* cancel of the same task run.  An event is the state and the message of  *)
(* the task at the time it is enqueued.                                    *)
(***************************************************************************)

\* What a handler returns to execute.
HandlerResults == { [success |-> TRUE, total |-> 1], Failure("Unknown action") }

\* The Exception a handler raises.
HandlerExceptions == { "KeyError: 'action'" }

\* The task execute works on: context.current_task, or a task it creates in
\* state submitted when the context has none.
TaskOf(current_task) ==
    IF current_task = None
    THEN [id |-> "temp-task", state |-> "submitted", text |-> None]
    ELSE current_task

\* A request not yet executed.
HostRequest(current_task) ==
    [current_task |-> current_task, position |-> "accepted",
     task |-> None, events |-> << >>]

\* event_queue.enqueue_event(task)
Enqueue(r, task) ==
    [r EXCEPT !.task = task,
              !.events = Append(@, [state |-> task.state, text |-> task.text])]

InitHost ==
    /\ \E n \in 1..MaxRequests :
           host_tasks \in [1..n -> { HostRequest(c) :
                                        c \in { None,
                                                [id |-> "task", state |-> "submitted",
                                                 text |-> None] } }]
    /\ max_revisions = 0
    /\ NoFrame
    /\ NoBatch
    /\ NoExam
    /\ NoRegistry
    /\ NoGenerator
    /\ NoJudge

HostStep(i, r) ==
    /\ host_tasks' = [host_tasks EXCEPT ![i] = r]
    /\ UNCHANGED << generator_vars, quality_vars, pipeline_vars, batch_vars,
                    exam_vars, registry_vars >>

\* execute up to the await of the handler: the task is set to working and
\* enqueued.
ExecuteStart(i) ==
    /\ host_tasks[i].position = "accepted"
    /\ HostStep(i, [Enqueue(host_tasks[i],
                            [TaskOf(host_tasks[i].current_task)
                                 EXCEPT !.state = "working"])
                        EXCEPT !.position = "handler"])

\* The handler returned: the task is set to completed with the text of the
\* result and enqueued.
HandlerReturned(i) ==
    /\ host_tasks[i].position = "handler"
    /\ \E handler_result \in HandlerResults :
           HostStep(i, [Enqueue(host_tasks[i],
                               [host_tasks[i].task
                                    EXCEPT !.state = "completed",
                                           !.text = ExecuteText(handler_result)])
                           EXCEPT !.position = "returned"])

\* The handler raised an Exception: the task is set to failed and enqueued.
HandlerRaised(i) ==
    /\ host_tasks[i].position = "handler"
    /\ \E e \in HandlerExceptions :
           HostStep(i, [Enqueue(host_tasks[i],
                               [host_tasks[i].task
                                    EXCEPT !.state = "failed",
                                           !.text = << "Error: ", e >>])
                           EXCEPT !.position = "raised"])

\* The coroutine is cancelled at the await of the handler: CancelledError is
\* not an Exception, the except clause does not run and nothing is enqueued.
HandlerCancelled(i) ==
    /\ host_tasks[i].position = "handler"
    /\ HostStep(i, [host_tasks[i] EXCEPT !.position = "cancelled"])

\* cancel for a task that is being executed: the task is set to canceled and
\* enqueued; execute is not told.
Cancel(i) ==
    /\ host_tasks[i].position = "handler"
    /\ host_tasks[i].task.state = "working"
    /\ HostStep(i, Enqueue(host_tasks[i],
                           [host_tasks[i].task EXCEPT !.state = "canceled"]))

NextHost ==
    \E i \in DOMAIN host_tasks :
        \/ ExecuteStart(i)
        \/ HandlerReturned(i)
        \/ HandlerRaised(i)
        \/ HandlerCancelled(i)
        \/ Cancel(i)

SpecHost == InitHost /\ [][NextHost]_vars

\* The states published for request i, in order.
Published(i) == [k \in DOMAIN host_tasks[i].events |-> host_tasks[i].events[k].state]

\* C32: for every request the host executes, working is published first, then
\* exactly one terminal state, completed when the handler returned and failed
\* when it raised, and nothing after it, whatever the other requests do.
C32_LifecycleOrder ==
    \A i \in DOMAIN host_tasks :
        /\ host_tasks[i].position = "accepted" => Published(i) = << >>
        /\ host_tasks[i].position = "handler" => Published(i) = << "working" >>
        /\ host_tasks[i].position = "returned"
               => Published(i) = << "working", "completed" >>
        /\ host_tasks[i].position = "raised"
               => Published(i) = << "working", "failed" >>

(***************************************************************************)
(* Errors of the transport, as the controller sees them                    *)
(***************************************************************************)

\* The request of call i ended in a networking failure, a timeout, a non-2xx
\* HTTP response or a JSON-RPC error member.
TransportFailed(i) ==
    /\ calls[i].sent
    /\ calls[i].reply # None
    /\ calls[i].reply.kind \in RaisingKinds \cup { "rpc_error" }

\* The entry generate_question appends to state.errors when call i failed.
FailedCallEntry(i) ==
    IF calls[i].skill = "select_concept"
    THEN [msg |-> "Failed to select concept", attempt |-> 0]
    ELSE IF calls[i].skill = "check_quality"
    THEN [msg |-> "Quality check failed", attempt |-> calls[i].attempt + 1]
    ELSE [msg |-> "Failed to generate question", attempt |-> calls[i].attempt + 1]

\* C33: send_task hands every networking failure, timeout, non-2xx response
\* and JSON-RPC error member to the caller as a dict with an error key, and
\* the controller reads no payload from it and logs the call as failed.
C33_TransportErrorsSurface ==
    \A i \in Calls :
        TransportFailed(i) =>
            /\ "error" \in DOMAIN send_task(calls[i].reply)
            /\ PayloadOf(i) = None
            /\ Answered(i) => \E k \in DOMAIN state.errors :
                                  state.errors[k] = FailedCallEntry(i)

\* A check_quality request that timed out and a generate_question request
\* that got a JSON-RPC error, both logged.
C33_Witness ==
    /\ \E i \in Calls : /\ TransportFailed(i)
                         /\ Answered(i)
                         /\ calls[i].skill = "check_quality"
                         /\ calls[i].reply.kind = "timeout"
    /\ \E i \in Calls : /\ TransportFailed(i)
                         /\ calls[i].reply.kind = "rpc_error"

(***************************************************************************)
(* The accepted PipelineResult                                             *)
(***************************************************************************)

\* The answer to call i is a successful judgment that says accepted.
AcceptingJudgment(i) ==
    /\ Requested(i, "check_quality")
    /\ Succeeded(PayloadOf(i))
    /\ Get(PayloadOf(i), "accepted", FALSE)

\* C34: an accepting judgment is the answer to the last call of the pipeline,
\* no generate or revise call follows it; and a PipelineResult with accepted
\* true carries the question that judgment was asked about, which is not
\* null, and that judgment.
C34_AcceptedResultIsJudged ==
    /\ \A i \in Calls : AcceptingJudgment(i) => i = Len(calls) /\ pc = "done"
    /\ pc = "done" /\ result.accepted =>
           /\ calls # << >>
           /\ AcceptingJudgment(Len(calls))
           /\ result.question # None
           /\ result.question = calls[Len(calls)].message.question
           /\ result.judgment = PayloadOf(Len(calls))

\* A question accepted after a revision.
C34_Witness ==
    /\ pc = "done"
    /\ result.accepted
    /\ result.revision_count > 0
    /\ AcceptingJudgment(Len(calls))

(***************************************************************************)
(* The questions of the exam                                               *)
(***************************************************************************)

\* q is the question of an accepted PipelineResult of the batch for s.
AcceptedFor(q, s) ==
    \E r \in BatchOutcomes(s) :
        /\ r.accepted
        /\ r.question # None
        /\ \A f \in DOMAIN r.question : f \in DOMAIN q /\ q[f] = r.question[f]
        /\ ~Get(q, "draft", FALSE)

\* C35: every question the orchestrator has aggregated, by subtopic while
\* the rounds run and in the list of the exam afterwards, is the question of
\* a PipelineResult with accepted true, kept under the subtopic whose batch
\* produced it; the question of a pipeline that was not accepted is in
\* neither.
C35_OnlyAcceptedQuestions ==
    /\ \A s \in Subtopics :
           \A k \in DOMAIN questions_by_subtopic[s] :
               AcceptedFor(questions_by_subtopic[s][k], s)
    /\ \A k \in DOMAIN questions :
           \E s \in Subtopics : AcceptedFor(questions[k], s)
    /\ exam_pc = "done" /\ "questions" \in DOMAIN exam =>
           \A k \in DOMAIN exam.questions :
               \E s \in Subtopics : AcceptedFor(exam.questions[k], s)

\* An exam returned with a question of each subtopic after a round in which
\* a pipeline was not accepted.
C35_Witness ==
    /\ exam_pc = "done"
    /\ "questions" \in DOMAIN exam
    /\ \A s \in Subtopics :
           \E k \in DOMAIN exam.questions : exam.questions[k].subtopic = s
    /\ errors # << >>

\* Subtopics with a target count of zero or less get no pipeline.
NoPipelineWithoutQuota ==
    \A s \in Subtopics : subtopic_questions[s] <= 0 => round_tasks[s] = 0

\* C36 as stated: at every point of a batch the number of questions accepted
\* for a subtopic is at most its target count, and subtopics with a target
\* count of zero or less never get a pipeline.
C36_NeverOverTarget ==
    /\ \A s \in Subtopics : AcceptedCount(s) <= subtopic_questions[s]
    /\ NoPipelineWithoutQuota

\* C36 amended: at every point of a batch the number of questions accepted
\* for a subtopic is at most its target count, or zero when the target count
\* is negative, and subtopics with a target count of zero or less never get
\* a pipeline.
C36_NeverOverPositiveTarget ==
    /\ \A s \in Subtopics : AcceptedCount(s) <= PositiveQuotas[s]
    /\ NoPipelineWithoutQuota

\* A round whose pipelines were all accepted has filled one subtopic to its
\* target count, and the next round asks only for the other one.
C36_Witness ==
    /\ exam_pc = "gather"
    /\ retry_round = 1
    /\ \E s, t \in Subtopics :
           /\ subtopic_questions[s] = 2
           /\ AcceptedCount(s) = 2
           /\ round_tasks[s] = 0
           /\ round_tasks[t] > 0

(***************************************************************************)
(* The steps log of generate_exam                                          *)
(***************************************************************************)

\* The steps in the order generate_exam takes them.
StepOrder ==
    << "generate_questions", "generate_images", "insert_questions",
       "create_exam", "add_to_pack" >>

StepRank(name) == CHOOSE k \in DOMAIN StepOrder : StepOrder[k] = name

\* Step k of the log is name and some earlier step is before, completed.
After(steps, k, name, before) ==
    steps[k].step = name =>
        \E j \in 1..(k - 1) :
            steps[j].step = before /\ steps[j].status = "completed"

\* C40: in the result generate_exam returns no step is left in_progress, the
\* steps appear in the order generate_questions, generate_images,
\* insert_questions, create_exam, add_to_pack, create_exam only after a
\* completed insert_questions and add_to_pack only after a completed
\* create_exam.
C40_StepsLog ==
    exam_pc = "done" /\ "steps" \in DOMAIN exam =>
        LET steps == exam.steps
        IN /\ \A k \in DOMAIN steps :
                  /\ steps[k].step \in { StepOrder[n] : n \in DOMAIN StepOrder }
                  /\ steps[k].status \in { "completed", "failed", "skipped" }
                  /\ After(steps, k, "create_exam", "insert_questions")
                  /\ After(steps, k, "add_to_pack", "create_exam")
           /\ \A j, k \in DOMAIN steps :
                  j < k => StepRank(steps[j].step) < StepRank(steps[k].step)

\* A result with all five steps.
C40_Witness ==
    /\ exam_pc = "done"
    /\ "steps" \in DOMAIN exam
    /\ Len(exam.steps) = Len(StepOrder)
    /\ exam.steps[Len(StepOrder)].step = "add_to_pack"

(***************************************************************************)
(* The requests one pipeline sends                                         *)
(***************************************************************************)

\* C37: the revision_count of the PipelineResult is the number of
\* revise_question requests the pipeline sent, and at most max_revisions,
\* whatever the agents answered.
C37_RevisionCountIsRevisesSent ==
    pc = "done" =>
        /\ result.revision_count = Cardinality(ReviseRequests)
        /\ result.revision_count <= max_revisions

GenerateRequests == { i \in Calls : Requested(i, "generate_question") }

\* The requests sent to the generator, the verifier and the judge.
WorkRequests ==
    { i \in Calls : calls[i].sent /\ calls[i].skill # "select_concept" }

\* select_concept gave the pipeline no selection.
SelectFailed ==
    /\ calls # << >>
    /\ Answered(1)
    /\ _select_concept(calls[1], calls[1].reply) = None

\* C38: one pipeline sends at most one generate_question request and at most
\* max_revisions revise_question requests; when select_concept fails it
\* sends no generate, verify or judge request and returns a result with
\* concept_id and question null and revision_count 0.
C38_RequestsBounded ==
    /\ Cardinality(GenerateRequests) <= 1
    /\ Cardinality(ReviseRequests) <= max_revisions
    /\ SelectFailed =>
           /\ WorkRequests = { }
           /\ pc = "done"
           /\ result.concept_id = None
           /\ result.question = None
           /\ result.revision_count = 0

\* A pipeline that has sent one generate_question and max_revisions
\* revise_question requests.
C38_Witness ==
    /\ pc = "done"
    /\ max_revisions = 2
    /\ Cardinality(ReviseRequests) = 2
    /\ Cardinality(GenerateRequests) = 1

\* The correctness checks that came back to the controller as verified =
\* false.
FailedCorrectnessChecks ==
    { i \in Calls : /\ Requested(i, "verify_correctness")
                    /\ Succeeded(PayloadOf(i))
                    /\ ~Get(PayloadOf(i), "verified", FALSE) }

\* C39: when the Correctness Verifier answers verified = false for the
\* question of an attempt, no check_quality request is sent for that
\* question; the check_quality requests and the failed correctness checks of
\* one pipeline together number at most max_revisions + 1.
C39_UnverifiedIsNotJudged ==
    /\ \A i \in Calls :
           LatestVerify(i) /\ Unverified(verifier_reply) =>
               ~\E j \in JudgeRequests :
                    /\ j > i
                    /\ calls[j].attempt = calls[i].attempt
                    /\ calls[j].message.question = calls[i].message.question
    /\ Cardinality(JudgeRequests) + Cardinality(FailedCorrectnessChecks)
           <= max_revisions + 1

====
